---- MODULE Spec2Model ----
(***************************************************************************)
(* Model of the CEC compliance test engine of                              *)
(* utils/cec-compliance/cec-test.cpp: the subtest catalogue, its           *)
(* registration (collectTests), the operator's expectations                *)
(* (setExpectedResult), the dispatcher (testRemote) and the post-test      *)
(* recognized/unrecognized consistency check.                              *)
(*                                                                         *)
(* Bitmasks (tags, logical-address masks) are modelled as the set of their *)
(* set bits: a & b is the intersection, 1 << la is {la}.                   *)
(***************************************************************************)
EXTENDS Integers, Sequences, FiniteSets, TLC

(***************************************************************************)
(* Result codes (cec-compliance.h).                                        *)
(***************************************************************************)
OK == 0
FAIL == 1
OK_PRESUMED == 2
OK_NOT_SUPPORTED == 3
OK_REFUSED == 4
OK_UNEXPECTED == 5
OK_EXPECTED_FAIL == 6
NOTAPPLICABLE == 7
FAIL_CRITICAL == 8
DONT_CARE == 255

CEC_OP_CEC_VERSION_1_4 == 5
CEC_OP_CEC_VERSION_2_0 == 6

(***************************************************************************)
(* Bounds of the model.                                                    *)
(***************************************************************************)
\* the warning counter is capped at this value
MaxWarnings == 1
\* number of setExpectedResult calls before the run
MaxExpect == 1
\* number of mark operations on the recognized/unrecognized tables
MaxMarks == 3
\* number of subtest entries of a catalogue handed to collectTests alone
MaxEntries == 3

(***************************************************************************)
(* Logical address masks (linux/cec.h, cec-compliance.h).                  *)
(***************************************************************************)
CEC_LOG_ADDR_MASK_TV == {0}
CEC_LOG_ADDR_MASK_RECORD == {1, 2, 9}
CEC_LOG_ADDR_MASK_TUNER == {3, 6, 7, 10}
CEC_LOG_ADDR_MASK_PLAYBACK == {4, 8, 11}
CEC_LOG_ADDR_MASK_BACKUP == {12, 13}
CEC_LOG_ADDR_MASK_ALL == 0..15
\* static_cast<__u16>(~mask)
NotMask16(mask) == (0..15) \ mask

(***************************************************************************)
(* Feature tags (cec-compliance.h), one bit each.                          *)
(***************************************************************************)
TAG_ALL ==
  { "TAG_CORE", "TAG_POWER_STATUS", "TAG_SYSTEM_INFORMATION",
    "TAG_VENDOR_SPECIFIC_COMMANDS", "TAG_DEVICE_OSD_TRANSFER",
    "TAG_OSD_DISPLAY", "TAG_REMOTE_CONTROL_PASSTHROUGH",
    "TAG_DEVICE_MENU_CONTROL", "TAG_DECK_CONTROL", "TAG_TUNER_CONTROL",
    "TAG_ONE_TOUCH_RECORD", "TAG_TIMER_PROGRAMMING",
    "TAG_CAP_DISCOVERY_CONTROL", "TAG_DYNAMIC_AUTO_LIPSYNC",
    "TAG_ARC_CONTROL", "TAG_SYSTEM_AUDIO_CONTROL",
    "TAG_AUDIO_RATE_CONTROL", "TAG_ROUTING_CONTROL",
    "TAG_STANDBY_RESUME" }

(***************************************************************************)
(* struct remote_subtest: { name, la_mask, test_fn, in_standby, for_cec20 }*)
(* An initializer with three fields leaves the two qualifiers false.       *)
(***************************************************************************)
ST(n, m, f) ==
  [name |-> n, la_mask |-> m, test_fn |-> f,
   in_standby |-> FALSE, for_cec20 |-> FALSE]

ST5(n, m, f, sb, v2) ==
  [name |-> n, la_mask |-> m, test_fn |-> f,
   in_standby |-> sb, for_cec20 |-> v2]

system_info_subtests ==
  << ST("Polling Message", CEC_LOG_ADDR_MASK_ALL, "system_info_polling"),
     ST("Give Physical Address", CEC_LOG_ADDR_MASK_ALL, "system_info_phys_addr"),
     ST("Give CEC Version", CEC_LOG_ADDR_MASK_ALL, "system_info_version"),
     ST("Get Menu Language", CEC_LOG_ADDR_MASK_ALL, "system_info_get_menu_lang"),
     ST("Set Menu Language", CEC_LOG_ADDR_MASK_ALL, "system_info_set_menu_lang"),
     ST("Give Device Features", CEC_LOG_ADDR_MASK_ALL, "system_info_give_features") >>

core_subtests ==
  << ST("Feature aborts unknown messages", CEC_LOG_ADDR_MASK_ALL, "core_unknown"),
     ST("Feature aborts Abort message", CEC_LOG_ADDR_MASK_ALL, "core_abort") >>

vendor_specific_subtests ==
  << ST("Give Device Vendor ID", CEC_LOG_ADDR_MASK_ALL, "vendor_specific_commands_id") >>

device_osd_transfer_subtests ==
  << ST("Set OSD Name", CEC_LOG_ADDR_MASK_ALL, "device_osd_transfer_set"),
     ST("Give OSD Name", CEC_LOG_ADDR_MASK_ALL, "device_osd_transfer_give") >>

osd_string_subtests_DefaultLast ==
  << ST("Set OSD String with no timeout", CEC_LOG_ADDR_MASK_TV, "osd_string_set_until_clear"),
     ST("Set OSD String with invalid operand", CEC_LOG_ADDR_MASK_TV, "osd_string_invalid"),
     ST("Set OSD String with default timeout", CEC_LOG_ADDR_MASK_TV, "osd_string_set_default") >>

osd_string_subtests ==
  << ST("Set OSD String with default timeout", CEC_LOG_ADDR_MASK_TV, "osd_string_set_default"),
     ST("Set OSD String with no timeout", CEC_LOG_ADDR_MASK_TV, "osd_string_set_until_clear"),
     ST("Set OSD String with invalid operand", CEC_LOG_ADDR_MASK_TV, "osd_string_invalid") >>

routing_control_subtests ==
  << ST("Active Source", CEC_LOG_ADDR_MASK_TV, "routing_control_active_source"),
     ST("Request Active Source", CEC_LOG_ADDR_MASK_ALL, "routing_control_req_active_source"),
     ST("Inactive Source", CEC_LOG_ADDR_MASK_TV, "routing_control_inactive_source"),
     ST("Set Stream Path", CEC_LOG_ADDR_MASK_ALL, "routing_control_set_stream_path") >>

rc_passthrough_subtests ==
  << ST("User Control Pressed", CEC_LOG_ADDR_MASK_ALL, "rc_passthrough_user_ctrl_pressed"),
     ST("User Control Released", CEC_LOG_ADDR_MASK_ALL, "rc_passthrough_user_ctrl_released") >>

dev_menu_ctl_subtests ==
  << ST("Menu Request", NotMask16(CEC_LOG_ADDR_MASK_TV), "dev_menu_ctl_request"),
     ST("User Control Pressed", CEC_LOG_ADDR_MASK_ALL, "rc_passthrough_user_ctrl_pressed"),
     ST("User Control Released", CEC_LOG_ADDR_MASK_ALL, "rc_passthrough_user_ctrl_released") >>

deck_ctl_subtests ==
  << ST("Give Deck Status",
        CEC_LOG_ADDR_MASK_PLAYBACK \cup CEC_LOG_ADDR_MASK_RECORD, "deck_ctl_give_status"),
     ST("Give Deck Status Invalid Operand",
        CEC_LOG_ADDR_MASK_PLAYBACK \cup CEC_LOG_ADDR_MASK_RECORD, "deck_ctl_give_status_invalid"),
     ST("Deck Control",
        CEC_LOG_ADDR_MASK_PLAYBACK \cup CEC_LOG_ADDR_MASK_RECORD, "deck_ctl_deck_ctl"),
     ST("Deck Control Invalid Operand",
        CEC_LOG_ADDR_MASK_PLAYBACK \cup CEC_LOG_ADDR_MASK_RECORD, "deck_ctl_deck_ctl_invalid"),
     ST("Play",
        CEC_LOG_ADDR_MASK_PLAYBACK \cup CEC_LOG_ADDR_MASK_RECORD, "deck_ctl_play"),
     ST("Play Invalid Operand",
        CEC_LOG_ADDR_MASK_PLAYBACK \cup CEC_LOG_ADDR_MASK_RECORD, "deck_ctl_play_invalid") >>

tuner_ctl_subtests ==
  << ST("Tuner Control", CEC_LOG_ADDR_MASK_TUNER \cup CEC_LOG_ADDR_MASK_TV, "tuner_ctl_test") >>

one_touch_rec_subtests ==
  << ST("Record TV Screen", CEC_LOG_ADDR_MASK_TV, "one_touch_rec_tv_screen"),
     ST("Record On",
        CEC_LOG_ADDR_MASK_RECORD \cup CEC_LOG_ADDR_MASK_BACKUP, "one_touch_rec_on"),
     ST("Record On Invalid Operand",
        CEC_LOG_ADDR_MASK_RECORD \cup CEC_LOG_ADDR_MASK_BACKUP, "one_touch_rec_on_invalid"),
     ST("Record Off",
        CEC_LOG_ADDR_MASK_RECORD \cup CEC_LOG_ADDR_MASK_BACKUP, "one_touch_rec_off") >>

timer_prog_subtests ==
  << ST("Set Analogue Timer",
        CEC_LOG_ADDR_MASK_RECORD \cup CEC_LOG_ADDR_MASK_BACKUP, "timer_prog_set_analog_timer"),
     ST("Set Digital Timer",
        CEC_LOG_ADDR_MASK_RECORD \cup CEC_LOG_ADDR_MASK_BACKUP, "timer_prog_set_digital_timer"),
     ST("Set Timer Program Title",
        CEC_LOG_ADDR_MASK_RECORD \cup CEC_LOG_ADDR_MASK_BACKUP, "timer_prog_set_prog_title"),
     ST("Set External Timer",
        CEC_LOG_ADDR_MASK_RECORD \cup CEC_LOG_ADDR_MASK_BACKUP, "timer_prog_set_ext_timer"),
     ST("Clear Analogue Timer",
        CEC_LOG_ADDR_MASK_RECORD \cup CEC_LOG_ADDR_MASK_BACKUP, "timer_prog_clear_analog_timer"),
     ST("Clear Digital Timer",
        CEC_LOG_ADDR_MASK_RECORD \cup CEC_LOG_ADDR_MASK_BACKUP, "timer_prog_clear_digital_timer"),
     ST("Clear External Timer",
        CEC_LOG_ADDR_MASK_RECORD \cup CEC_LOG_ADDR_MASK_BACKUP, "timer_prog_clear_ext_timer"),
     ST("Set Timers with Errors",
        CEC_LOG_ADDR_MASK_RECORD \cup CEC_LOG_ADDR_MASK_BACKUP, "timer_errors"),
     ST("Set Overlapping Timers",
        CEC_LOG_ADDR_MASK_RECORD \cup CEC_LOG_ADDR_MASK_BACKUP, "timer_overlap_warning") >>

cdc_subtests ==
  << ST("CDC_HEC_Discover", CEC_LOG_ADDR_MASK_ALL, "cdc_hec_discover") >>

post_test_subtests ==
  << ST("Recognized/unrecognized message consistency", CEC_LOG_ADDR_MASK_ALL,
        "post_test_check_recognized") >>

(***************************************************************************)
(* Subtest vectors that tests[] takes from the other files of the          *)
(* compliance tool (power, audio).  Each is represented by its leading     *)
(* entries; the standby group carries the entries with the in_standby and  *)
(* for_cec20 qualifiers.                                                   *)
(***************************************************************************)
power_status_subtests ==
  << ST("Give Device Power Status", CEC_LOG_ADDR_MASK_ALL, "power_status_give") >>

dal_subtests ==
  << ST("Request Current Latency", CEC_LOG_ADDR_MASK_ALL, "dal_request_current_latency") >>

arc_subtests ==
  << ST("Initiate ARC (RX)", CEC_LOG_ADDR_MASK_ALL, "arc_initiate_rx") >>

sac_subtests ==
  << ST("Request Short Audio Descriptor", CEC_LOG_ADDR_MASK_ALL,
        "sac_request_sad_probe") >>

audio_rate_ctl_subtests ==
  << ST("Set Audio Rate", CEC_LOG_ADDR_MASK_ALL, "audio_rate_ctl_set_audio_rate") >>

standby_resume_subtests ==
  << ST("Standby", CEC_LOG_ADDR_MASK_ALL, "standby_resume_standby"),
     ST5("Standby: Feature aborts unknown messages", CEC_LOG_ADDR_MASK_ALL,
         "core_unknown", TRUE, FALSE),
     ST5("Standby: Give Device Features", CEC_LOG_ADDR_MASK_ALL,
         "system_info_give_features", TRUE, TRUE),
     ST("Wake up", CEC_LOG_ADDR_MASK_ALL, "standby_resume_wakeup") >>

\* the values given to CEC_S_MODE: CEC_MODE_INITIATOR alone, and
\* CEC_MODE_INITIATOR | CEC_MODE_FOLLOWER
CEC_MODE_INITIATOR == "initiator"

CEC_MODE_INITIATOR_FOLLOWER == "initiator_follower"

\* the modes the adapter is in after mode_set_initiator and mode_set_follower
mode_set_initiator == CEC_MODE_INITIATOR

mode_set_follower == "follower"

Modes == {mode_set_initiator, mode_set_follower, CEC_MODE_INITIATOR_FOLLOWER}

\* struct remote_test: { name, tags, subtests }
RT(n, t, s) == [name |-> n, tags |-> t, subtests |-> s]

\* tests[] without its last entry
feature_tests ==
  << RT("Core", {"TAG_CORE"}, core_subtests),
     RT("Give Device Power Status feature", {"TAG_POWER_STATUS"}, power_status_subtests),
     RT("System Information feature", {"TAG_SYSTEM_INFORMATION"}, system_info_subtests),
     RT("Vendor Specific Commands feature", {"TAG_VENDOR_SPECIFIC_COMMANDS"},
        vendor_specific_subtests),
     RT("Device OSD Transfer feature", {"TAG_DEVICE_OSD_TRANSFER"},
        device_osd_transfer_subtests),
     RT("OSD String feature", {"TAG_OSD_DISPLAY"}, osd_string_subtests),
     RT("Remote Control Passthrough feature", {"TAG_REMOTE_CONTROL_PASSTHROUGH"},
        rc_passthrough_subtests),
     RT("Device Menu Control feature", {"TAG_DEVICE_MENU_CONTROL"}, dev_menu_ctl_subtests),
     RT("Deck Control feature", {"TAG_DECK_CONTROL"}, deck_ctl_subtests),
     RT("Tuner Control feature", {"TAG_TUNER_CONTROL"}, tuner_ctl_subtests),
     RT("One Touch Record feature", {"TAG_ONE_TOUCH_RECORD"}, one_touch_rec_subtests),
     RT("Timer Programming feature", {"TAG_TIMER_PROGRAMMING"}, timer_prog_subtests),
     RT("Capability Discovery and Control feature", {"TAG_CAP_DISCOVERY_CONTROL"},
        cdc_subtests),
     RT("Dynamic Auto Lipsync feature", {"TAG_DYNAMIC_AUTO_LIPSYNC"}, dal_subtests),
     RT("Audio Return Channel feature", {"TAG_ARC_CONTROL"}, arc_subtests),
     RT("System Audio Control feature", {"TAG_SYSTEM_AUDIO_CONTROL"}, sac_subtests),
     RT("Audio Rate Control feature", {"TAG_AUDIO_RATE_CONTROL"}, audio_rate_ctl_subtests),
     RT("Routing Control feature", {"TAG_ROUTING_CONTROL"}, routing_control_subtests),
     RT("Standby/Resume and Power Status", {"TAG_POWER_STATUS", "TAG_STANDBY_RESUME"},
        standby_resume_subtests) >>

\* the last entry of tests[]
post_test_checks == RT("Post-test checks", {"TAG_CORE"}, post_test_subtests)

tests_PostTestFirst == << post_test_checks >> \o feature_tests

tests == Append(feature_tests, post_test_checks)

(***************************************************************************)
(* safename (cec-compliance.cpp): keeps the letters and digits of a name   *)
(* in lower case and replaces every run of other characters between them   *)
(* by one '_'.  Strings are atomic here, so the function is tabulated for  *)
(* the names that occur; a name already in normal form maps to itself.     *)
(***************************************************************************)
SafeNameTable ==
  "Active Source" :> "active_source" @@
  "CDC_HEC_Discover" :> "cdc_hec_discover" @@
  "Clear Analogue Timer" :> "clear_analogue_timer" @@
  "Clear Digital Timer" :> "clear_digital_timer" @@
  "Clear External Timer" :> "clear_external_timer" @@
  "Deck Control" :> "deck_control" @@
  "Deck Control Invalid Operand" :> "deck_control_invalid_operand" @@
  "Feature aborts Abort message" :> "feature_aborts_abort_message" @@
  "Feature aborts unknown messages" :> "feature_aborts_unknown_messages" @@
  "Get Menu Language" :> "get_menu_language" @@
  "Give CEC Version" :> "give_cec_version" @@
  "Give Deck Status" :> "give_deck_status" @@
  "Give Deck Status Invalid Operand" :> "give_deck_status_invalid_operand" @@
  "Give Device Features" :> "give_device_features" @@
  "Give Device Power Status" :> "give_device_power_status" @@
  "Give Device Vendor ID" :> "give_device_vendor_id" @@
  "Give OSD Name" :> "give_osd_name" @@
  "Give Physical Address" :> "give_physical_address" @@
  "Inactive Source" :> "inactive_source" @@
  "Initiate ARC (RX)" :> "initiate_arc_rx" @@
  "Menu Request" :> "menu_request" @@
  "No Such Test" :> "no_such_test" @@
  "Play" :> "play" @@
  "Play Invalid Operand" :> "play_invalid_operand" @@
  "Polling Message" :> "polling_message" @@
  "Recognized/unrecognized message consistency" :> "recognized_unrecognized_message_consistency" @@
  "Record Off" :> "record_off" @@
  "Record On" :> "record_on" @@
  "Record On Invalid Operand" :> "record_on_invalid_operand" @@
  "Record TV Screen" :> "record_tv_screen" @@
  "Request Active Source" :> "request_active_source" @@
  "Request Current Latency" :> "request_current_latency" @@
  "Request Short Audio Descriptor" :> "request_short_audio_descriptor" @@
  "Set Analogue Timer" :> "set_analogue_timer" @@
  "Set Audio Rate" :> "set_audio_rate" @@
  "Set Digital Timer" :> "set_digital_timer" @@
  "Set External Timer" :> "set_external_timer" @@
  "Set Menu Language" :> "set_menu_language" @@
  "Set OSD Name" :> "set_osd_name" @@
  "Set OSD String with default timeout" :> "set_osd_string_with_default_timeout" @@
  "Set OSD String with invalid operand" :> "set_osd_string_with_invalid_operand" @@
  "Set OSD String with no timeout" :> "set_osd_string_with_no_timeout" @@
  "Set Overlapping Timers" :> "set_overlapping_timers" @@
  "Set Stream Path" :> "set_stream_path" @@
  "Set Timer Program Title" :> "set_timer_program_title" @@
  "Set Timers with Errors" :> "set_timers_with_errors" @@
  "Standby" :> "standby" @@
  "Standby: Feature aborts unknown messages" :> "standby_feature_aborts_unknown_messages" @@
  "Standby: Give Device Features" :> "standby_give_device_features" @@
  "Tuner Control" :> "tuner_control" @@
  "User Control Pressed" :> "user_control_pressed" @@
  "User Control Released" :> "user_control_released" @@
  "User-Control-Pressed" :> "user_control_pressed" @@
  "Wake up" :> "wake_up"

safename(name) ==
  IF name \in DOMAIN SafeNameTable THEN SafeNameTable[name] ELSE name

(***************************************************************************)
(* std::map: find, operator[] (which inserts a value-initialised entry for *)
(* a missing key) and assignment through operator[].                       *)
(***************************************************************************)
EmptyMap == [k \in {} |-> 0]

MapHas(m, k) == k \in DOMAIN m

MapPut(m, k, v) == [x \in (DOMAIN m) \cup {k} |-> IF x = k THEN v ELSE m[x]]

\* the map after m[k] was evaluated; zero is 0 for int and FALSE for bool
MapTouch(m, k, zero) == IF k \in DOMAIN m THEN m ELSE MapPut(m, k, zero)

\* the value m[k] evaluates to
MapGet(m, k, zero) == IF k \in DOMAIN m THEN m[k] ELSE zero

(***************************************************************************)
(* collectTests: the state of the registration while it walks the          *)
(* catalogue; exited is std::exit(EXIT_FAILURE).                           *)
(***************************************************************************)
CollectStart ==
  [mapTestFuncs |-> EmptyMap, mapTests |-> EmptyMap,
   mapTestsNoWarnings |-> EmptyMap, exited |-> FALSE]

\* the body of the inner loop, for one subtest of the catalogue
CollectEntry_AnyDuplicate(st, subtest) ==
  LET name == safename(subtest.name)
      func == subtest.test_fn
  IN  IF MapHas(st.mapTestFuncs, name)
      THEN [st EXCEPT !.exited = TRUE]
      ELSE [st EXCEPT !.mapTestFuncs = MapPut(@, name, func),
                      !.mapTests = MapPut(@, name, DONT_CARE),
                      !.mapTestsNoWarnings = MapPut(@, name, FALSE)]

CollectEntry(st, subtest) ==
  LET name == safename(subtest.name)
      func == subtest.test_fn
  IN  IF MapHas(st.mapTestFuncs, name) /\ st.mapTestFuncs[name] # func
      THEN [st EXCEPT !.exited = TRUE]
      ELSE [st EXCEPT !.mapTestFuncs = MapPut(@, name, func),
                      !.mapTests = MapPut(@, name, DONT_CARE),
                      !.mapTestsNoWarnings = MapPut(@, name, FALSE)]

\* the subtests of a catalogue in the order the two nested loops visit them
RECURSIVE Flatten(_)
Flatten(cat) ==
  IF cat = << >> THEN << >> ELSE Head(cat).subtests \o Flatten(Tail(cat))

RECURSIVE CollectLoop(_, _)
CollectLoop(st, entries) ==
  IF st.exited \/ entries = << >>
  THEN st
  ELSE CollectLoop(CollectEntry(st, Head(entries)), Tail(entries))

collectTests(cat) == CollectLoop(CollectStart, Flatten(cat))

(***************************************************************************)
(* setExpectedResult(optarg, no_warnings).  optarg is the text             *)
(* name[=value]: has_eq says whether it holds an '=', name is the text     *)
(* before it and val the text after it.                                    *)
(***************************************************************************)
OptArg(n, e, v) == [name |-> n, has_eq |-> e, val |-> v]

\* isdigit(equal[1]) for the value texts that occur
IsDigitFirst(val) == val \in {"0", "1", "5", "8", "255", "0x5"}

\* strtoul(equal + 1, nullptr, 0) for the value texts that occur
Strtoul(val) ==
  CASE val = "0" -> 0
    [] val = "1" -> 1
    [] val = "5" -> 5
    [] val = "8" -> 8
    [] val = "255" -> 255
    [] val = "0x5" -> 5
    [] OTHER -> 0

\* the first test of setExpectedResult: the argument is rejected
OptRejected(optarg) ==
  \/ ~optarg.has_eq
  \/ optarg.name = ""
  \/ ~IsDigitFirst(optarg.val)


\* the name is not looked up: the entry is written whether it exists or not
setExpectedResult_UnknownAdded(mt, mtnw, optarg, no_warnings) ==
  IF OptRejected(optarg)
  THEN [ret |-> 1, mapTests |-> mt, mapTestsNoWarnings |-> mtnw]
  ELSE LET name == safename(optarg.name)
       IN  [ret |-> 0,
            mapTests |-> MapPut(mt, name, Strtoul(optarg.val)),
            mapTestsNoWarnings |-> MapPut(mtnw, name, no_warnings)]

\* [ret, mapTests, mapTestsNoWarnings] after the call
setExpectedResult(mt, mtnw, optarg, no_warnings) ==
  IF OptRejected(optarg)
  THEN [ret |-> 1, mapTests |-> mt, mapTestsNoWarnings |-> mtnw]
  ELSE LET name == safename(optarg.name)
       IN  IF ~MapHas(mt, name)
           THEN [ret |-> 1, mapTests |-> mt, mapTestsNoWarnings |-> mtnw]
           ELSE [ret |-> 0,
                 mapTests |-> MapPut(mt, name, Strtoul(optarg.val)),
                 mapTestsNoWarnings |-> MapPut(mtnw, name, no_warnings)]

(***************************************************************************)
(* Inputs of the runs that are explored.                                   *)
(***************************************************************************)
\* the local logical address (me) and the remote addresses under test
LocalLA == {4}
RemoteLAs == {0, 1, 3}

\* the tag selections handed to testRemote
TagSelections ==
  { TAG_ALL,
    {"TAG_CORE"},
    {"TAG_POWER_STATUS"},
    {"TAG_STANDBY_RESUME"},
    {"TAG_POWER_STATUS", "TAG_STANDBY_RESUME"},
    {"TAG_OSD_DISPLAY", "TAG_DEVICE_MENU_CONTROL"},
    {"TAG_SYSTEM_INFORMATION", "TAG_CORE"} }

\* the tag selections of the runs with operator expectations
ExpectTagSelections ==
  { {"TAG_DEVICE_MENU_CONTROL"}, {"TAG_POWER_STATUS", "TAG_STANDBY_RESUME"} }

\* the arguments given to setExpectedResult
ExpectArgs ==
  { OptArg("Menu Request", TRUE, "0"),
    OptArg("menu_request", TRUE, "0x5"),
    OptArg("Menu Request", TRUE, "255"),
    OptArg("User Control Pressed", TRUE, "1"),
    OptArg("User Control Released", TRUE, "8"),
    OptArg("No Such Test", TRUE, "1"),
    OptArg("Menu Request", FALSE, ""),
    OptArg("", TRUE, "1"),
    OptArg("Menu Request", TRUE, "x1"),
    OptArg("Menu Request", TRUE, "") }


\* the opcodes whose replies get classified when the tables are explored
\* on their own
TrackOps == {0, 130, 255}

\* the subtest names and functions of the catalogues handed to collectTests
\* on its own; the first two names have the same normal form
CollectNames == {"User Control Pressed", "User-Control-Pressed", "Menu Request"}
CollectFns == {"rc_passthrough_user_ctrl_pressed", "dev_menu_ctl_request"}

CollectEntries ==
  { ST(n, CEC_LOG_ADDR_MASK_ALL, f) : n \in CollectNames, f \in CollectFns }

SeqsUpTo(S, n) == UNION { [1..k -> S] : k \in 0..n }

\* the catalogue of two feature groups whose subtests are f[1..k] and the
\* rest of f
SplitAt(f, k) ==
  << RT("First feature", {"TAG_CORE"}, SubSeq(f, 1, k)),
     RT("Second feature", {"TAG_CORE"}, SubSeq(f, k + 1, Len(f))) >>

\* the catalogues of two feature groups with at most n subtests
CollectCatalogues(n) ==
  UNION { { SplitAt(f, k) : k \in 1..Len(f) } :
          f \in SeqsUpTo(CollectEntries, n) \ {<< >>} }

(***************************************************************************)
(* State.                                                                  *)
(***************************************************************************)
VARIABLES
  pc,                  \* position of the program
  mapTests,            \* static std::map<std::string, int> mapTests
  mapTestsNoWarnings,  \* static std::map<std::string, bool>
  nexpect,             \* number of setExpectedResult calls made
  opt_arg,             \* the arguments of the last setExpectedResult call
  opt_ret,             \* return value of the last setExpectedResult
  la,                  \* testRemote's argument la
  test_tags,           \* testRemote's argument test_tags
  cec_version,         \* node->remote[la].cec_version
  has_cec20,           \* node->has_cec20
  log_addr_mask,       \* laddrs.log_addr_mask as last read from the adapter
  gi,                  \* index of the current entry of tests[]
  si,                  \* index of the current subtest of its vector
  ret,                 \* testRemote's local ret
  raw,                 \* what the last test_fn returned
  has_warnings,        \* testRemote's local has_warnings
  warnings,            \* the global warning counter
  in_standby,          \* node->in_standby
  invoked,             \* the catalogue entries <<g, s>> invoked, in order
  skipped,             \* the catalogue entries <<g, s>> skipped, in order
  groups_run,          \* the groups whose header line was printed, in order
  report,              \* the line printed for the last subtest
  recognized_op,       \* node->remote[r].recognized_op, as a set of opcodes
  unrecognized_op,     \* node->remote[r].unrecognized_op, as a set of opcodes
  nmarks,              \* number of replies classified so far
  check_ret,           \* result of the last post_test_check_recognized call
  check_la,            \* its argument la
  cat,                 \* the catalogue handed to collectTests
  col,                 \* the registration state collectTests ended in
  test_fn,             \* the subtest function that is followed step by step
  step,                \* the position in its body
  fret,                \* the value it returned
  sent,                \* number of messages it has transmitted
  detected,            \* a check of it has found a violation
  msg,                 \* its local msg: the reply to the message it sent
  idx,                 \* index of its current loop iteration
  replies,             \* the replies it has received, in order
  deck_status,         \* the deck status last read by deck_status_get
  has_deck_ctl,        \* node->remote[la].has_deck_ctl
  info,                \* tuner_ctl_test's local info
  info_vec,            \* tuner_ctl_test's local info_vec
  current_time,        \* node->current_time, as a calendar date and time
  timers,              \* the timers the remote has confirmed and not cleared
  elapsed,             \* milliseconds since ts_start, as get_ts_ms tells
  has_cdc,             \* cdc_hec_discover's local has_cdc
  has_osd,             \* node->remote[l].has_osd, for each address l
  pass,                \* which call of testRemote is followed: the first, the second
  answers,             \* what the remote did in each subtest it was asked in
  lines,               \* the results of the subtests of this pass, in order
  first_pass,          \* what the first pass invoked, skipped and reported
  adapter,             \* the address masks the adapter gave when it was asked
  prim_type,           \* node->remote[la].prim_type
  remote_la_mask,      \* node->remote_la_mask
  phys_addr,           \* node->remote[la].phys_addr
  mode,                \* the mode last given to the adapter with CEC_S_MODE
  has_remote_control_passthrough, \* node->remote[la].has_remote_control_passthrough
  call                 \* what the testRemote call under way was given and found

vars ==
  << pc, mapTests, mapTestsNoWarnings, nexpect, opt_arg, opt_ret, la, test_tags,
     cec_version, has_cec20, log_addr_mask, gi, si, ret, raw, has_warnings,
     warnings, in_standby, invoked, skipped, groups_run, report,
     recognized_op, unrecognized_op, nmarks, check_ret, check_la, cat, col,
     test_fn, step, fret, sent, detected, msg, idx, replies, deck_status,
     has_deck_ctl,
     info, info_vec, current_time, timers, elapsed, has_cdc, has_osd, pass,
     answers, lines, first_pass, adapter, prim_type, remote_la_mask,
     phys_addr, mode, has_remote_control_passthrough, call >>

configVars == << mapTests, mapTestsNoWarnings, nexpect, opt_arg, opt_ret >>
nodeVars == << cec_version, has_cec20 >>
runVars ==
  << la, test_tags, log_addr_mask, gi, si, ret, raw, has_warnings, warnings,
     in_standby, invoked, skipped, groups_run, report >>
passVars ==
  << test_tags, log_addr_mask, gi, si, ret, raw, has_warnings, warnings,
     in_standby, invoked, skipped, groups_run, report >>
tableVars == << recognized_op, unrecognized_op >>
trackVars == << nmarks, check_ret, check_la >>
collectVars == << cat, col >>
stepVars == << test_fn, step, fret, sent, detected, msg, idx, replies >>
deckVars == << deck_status, has_deck_ctl >>
tunerVars == << info, info_vec >>
timerVars == << current_time, timers >>
twiceVars == << pass, answers, lines, first_pass, adapter >>
remoteVars == << prim_type, remote_la_mask, phys_addr >>
auxVars ==
  << elapsed, has_cdc, has_osd, twiceVars, remoteVars, mode,
     has_remote_control_passthrough, call >>
unitVars == << stepVars, deckVars, tunerVars, timerVars, auxVars >>
engineVars ==
  << configVars, nodeVars, runVars, tableVars, trackVars, collectVars >>

\* no line was printed
NoLine == [name |-> "", shown |-> DONT_CARE, note |-> "none"]
Line(n, r, what) == [name |-> n, shown |-> r, note |-> what]

(***************************************************************************)
(* post_test_check_recognized                                              *)
(***************************************************************************)
\* the loop's range: for (unsigned i = 0; i < 256; i++)
OpcodeRange_Short == 0..254

OpcodeRange == 0..255


\* the table the loop reads: node->remote[la], the remote under test
post_test_check_recognized_AllRemotes(rec, unrec, l) ==
  LET fail == \E r \in DOMAIN rec, i \in OpcodeRange : i \in rec[r] /\ i \in unrec[r]
  IN  IF fail THEN FAIL ELSE 0

post_test_check_recognized(rec, unrec, l) ==
  LET fail == \E i \in OpcodeRange : i \in rec[l] /\ i \in unrec[l]
  IN  IF fail THEN FAIL ELSE 0

(***************************************************************************)
(* What a subtest function can return.                                     *)
(***************************************************************************)
CriticalFns == {"system_info_polling", "system_info_phys_addr"}

\* The codes in the return statements of each subtest function of this
\* file: fail_on_test and fail() give FAIL, fail_or_warn gives FAIL or 0,
\* and a helper's non-zero result is passed on as FAIL.
SubtestReturns ==
  [ system_info_polling |-> {OK, FAIL, OK_NOT_SUPPORTED, FAIL_CRITICAL},
    system_info_phys_addr |-> {OK, FAIL, FAIL_CRITICAL},
    system_info_version |-> {OK, FAIL, OK_NOT_SUPPORTED, OK_REFUSED},
    system_info_get_menu_lang |-> {OK, FAIL, OK_PRESUMED, OK_NOT_SUPPORTED, OK_REFUSED},
    system_info_set_menu_lang |-> {FAIL, OK_PRESUMED, OK_NOT_SUPPORTED, OK_REFUSED},
    system_info_give_features |-> {OK, FAIL, OK_NOT_SUPPORTED, OK_REFUSED},
    core_unknown |-> {OK, FAIL},
    core_abort |-> {OK, FAIL},
    vendor_specific_commands_id |-> {OK, FAIL, OK_PRESUMED, OK_NOT_SUPPORTED, OK_REFUSED},
    device_osd_transfer_set |-> {FAIL, OK_PRESUMED, OK_NOT_SUPPORTED, OK_REFUSED},
    device_osd_transfer_give |-> {OK, FAIL, OK_PRESUMED, OK_NOT_SUPPORTED, OK_REFUSED},
    osd_string_set_default |-> {OK, FAIL, OK_PRESUMED, OK_NOT_SUPPORTED, OK_REFUSED},
    osd_string_set_until_clear |-> {OK, FAIL, OK_PRESUMED, NOTAPPLICABLE},
    osd_string_invalid |-> {OK, FAIL, NOTAPPLICABLE},
    routing_control_inactive_source |-> {OK, FAIL, OK_NOT_SUPPORTED, OK_REFUSED},
    routing_control_active_source |-> {OK, FAIL, OK_PRESUMED},
    routing_control_req_active_source |-> {OK, FAIL},
    routing_control_set_stream_path |-> {OK, FAIL, OK_PRESUMED, OK_NOT_SUPPORTED},
    rc_passthrough_user_ctrl_pressed |-> {FAIL, OK_PRESUMED, OK_NOT_SUPPORTED, OK_REFUSED},
    rc_passthrough_user_ctrl_released |-> {FAIL, OK_PRESUMED, OK_NOT_SUPPORTED, OK_REFUSED},
    dev_menu_ctl_request |-> {OK, FAIL, OK_PRESUMED, OK_NOT_SUPPORTED, OK_REFUSED},
    deck_ctl_give_status |-> {OK, FAIL, OK_PRESUMED, OK_NOT_SUPPORTED, OK_REFUSED},
    deck_ctl_give_status_invalid |-> {OK, FAIL, OK_NOT_SUPPORTED},
    deck_ctl_deck_ctl |-> {OK, FAIL, OK_NOT_SUPPORTED, OK_REFUSED},
    deck_ctl_deck_ctl_invalid |-> {OK, FAIL, OK_NOT_SUPPORTED},
    deck_ctl_play |-> {OK, FAIL, OK_NOT_SUPPORTED, OK_REFUSED},
    deck_ctl_play_invalid |-> {OK, FAIL, OK_NOT_SUPPORTED},
    tuner_ctl_test |-> {OK, FAIL, OK_NOT_SUPPORTED, OK_REFUSED},
    one_touch_rec_tv_screen |-> {OK, FAIL, OK_PRESUMED, OK_NOT_SUPPORTED, OK_REFUSED},
    one_touch_rec_on |-> {OK, FAIL, OK_PRESUMED, OK_NOT_SUPPORTED, OK_REFUSED},
    one_touch_rec_on_invalid |-> {OK, FAIL, OK_NOT_SUPPORTED},
    one_touch_rec_off |-> {OK, FAIL, OK_PRESUMED, OK_NOT_SUPPORTED, OK_REFUSED},
    timer_prog_set_analog_timer |-> {OK, FAIL, OK_PRESUMED, OK_NOT_SUPPORTED, OK_REFUSED},
    timer_prog_set_digital_timer |-> {OK, FAIL, OK_PRESUMED, OK_NOT_SUPPORTED, OK_REFUSED},
    timer_prog_set_ext_timer |-> {OK, FAIL, OK_PRESUMED, OK_NOT_SUPPORTED, OK_REFUSED},
    timer_prog_clear_analog_timer |-> {OK, FAIL, OK_PRESUMED, OK_NOT_SUPPORTED, OK_REFUSED},
    timer_prog_clear_digital_timer |-> {OK, FAIL, OK_PRESUMED, OK_NOT_SUPPORTED, OK_REFUSED},
    timer_prog_clear_ext_timer |-> {OK, FAIL, OK_PRESUMED, OK_NOT_SUPPORTED, OK_REFUSED},
    timer_prog_set_prog_title |-> {FAIL, OK_PRESUMED, OK_NOT_SUPPORTED, OK_REFUSED},
    timer_errors |-> {OK, FAIL},
    timer_overlap_warning |-> {OK, FAIL, OK_NOT_SUPPORTED},
    cdc_hec_discover |-> {OK, FAIL, OK_NOT_SUPPORTED} ]

\* the subtests of the other files of the suite
ExternalReturns ==
  {OK, FAIL, OK_PRESUMED, OK_NOT_SUPPORTED, OK_REFUSED, NOTAPPLICABLE}

Returns_AnyCode(fn, rec, unrec, l) == 0..8

\* Get CEC Version treats a question without an answer the way Give Physical
\* Address does
Returns_VersionCritical(fn, rec, unrec, l) ==
  IF fn = "post_test_check_recognized"
  THEN {post_test_check_recognized(rec, unrec, l)}
  ELSE IF fn = "system_info_version"
       THEN SubtestReturns[fn] \cup {FAIL_CRITICAL}
       ELSE IF fn \in DOMAIN SubtestReturns
            THEN SubtestReturns[fn]
            ELSE ExternalReturns

Returns(fn, rec, unrec, l) ==
  IF fn = "post_test_check_recognized"
  THEN {post_test_check_recognized(rec, unrec, l)}
  ELSE IF fn \in DOMAIN SubtestReturns
       THEN SubtestReturns[fn]
       ELSE ExternalReturns

(***************************************************************************)
(* testRemote: the pieces of its loop.                                     *)
(***************************************************************************)
\* if ((test.tags & test_tags) != test.tags) continue;
GroupSelected_Intersects(test, tags) == (test.tags \cap tags) # {}

GroupSelected(test, tags) == (test.tags \cap tags) = test.tags

\* for (const auto &subtest : test.subtests): the index of the element the
\* inner loop visits in its s-th iteration
VisitIndex_Reversed(g, s) == Len(tests[g].subtests) + 1 - s

VisitIndex(g, s) == s

SubtestAt(g, s) == tests[g].subtests[VisitIndex(g, s)]

EntryAt(g, s) == << g, VisitIndex(g, s) >>

Cec20Unmet(subtest, ver, has20) ==
  subtest.for_cec20 /\ (ver < CEC_OP_CEC_VERSION_2_0 \/ ~has20)

StandbyUnmet(subtest, mask) == subtest.in_standby /\ mask = {}

\* the two continue statements of the inner loop
Skips_MaskFilter(subtest, ver, has20, mask, l) ==
  Cec20Unmet(subtest, ver, has20) \/ StandbyUnmet(subtest, mask)
    \/ l \notin subtest.la_mask

Skips_NoCec20Test(subtest, ver, has20, mask, l) ==
  StandbyUnmet(subtest, mask)

Skips(subtest, ver, has20, mask, l) ==
  Cec20Unmet(subtest, ver, has20) \/ StandbyUnmet(subtest, mask)

\* if (!(subtest.la_mask & (1 << la)) && !ret) ret = OK_UNEXPECTED;
Escalate_Never(subtest, l, r) == r

Escalate_AnyAcceptance(subtest, l, r) ==
  IF (subtest.la_mask \cap {l}) = {} /\ r \in {OK, OK_PRESUMED}
  THEN OK_UNEXPECTED
  ELSE r

Escalate(subtest, l, r) ==
  IF (subtest.la_mask \cap {l}) = {} /\ r = 0 THEN OK_UNEXPECTED ELSE r

\* bool has_warnings = old_warnings < warnings;
HasWarnings(old_warnings, new_warnings) == old_warnings < new_warnings

\* the line printed for a subtest, and the maps after looking it up
PrintResult_Lenient(name, r, hw, mt, mtnw) ==
  IF r # NOTAPPLICABLE THEN Line(name, r, "") ELSE NoLine


PrintResult_WarningsAlwaysCount(name, r, hw, mt, mtnw) ==
  LET key == safename(name)
      expected == MapGet(mt, key, 0)
  IN  IF expected # DONT_CARE
      THEN IF r # expected
           THEN Line(name, FAIL, "expected")
           ELSE IF hw
                THEN Line(name, FAIL, "warnings")
                ELSE IF r = FAIL
                     THEN Line(name, OK_EXPECTED_FAIL, "")
                     ELSE Line(name, r, "")
      ELSE IF r # NOTAPPLICABLE THEN Line(name, r, "") ELSE NoLine


\* a failure the operator expected is printed as a failure
PrintResult_ExpectedFailAsFail(name, r, hw, mt, mtnw) ==
  LET key == safename(name)
      expected == MapGet(mt, key, 0)
  IN  IF expected # DONT_CARE
      THEN IF r # expected
           THEN Line(name, FAIL, "expected")
           ELSE IF hw /\ MapGet(mtnw, key, FALSE)
                THEN Line(name, FAIL, "warnings")
                ELSE Line(name, r, "")
      ELSE IF r # NOTAPPLICABLE THEN Line(name, r, "") ELSE NoLine

PrintResult(name, r, hw, mt, mtnw) ==
  LET key == safename(name)
      expected == MapGet(mt, key, 0)
  IN  IF expected # DONT_CARE
      THEN IF r # expected
           THEN Line(name, FAIL, "expected")
           ELSE IF hw /\ MapGet(mtnw, key, FALSE)
                THEN Line(name, FAIL, "warnings")
                ELSE IF r = FAIL
                     THEN Line(name, OK_EXPECTED_FAIL, "")
                     ELSE Line(name, r, "")
      ELSE IF r # NOTAPPLICABLE THEN Line(name, r, "") ELSE NoLine

\* if (ret == FAIL_CRITICAL) return;
StopsRun_AnyFail(r) == r \in {FAIL, FAIL_CRITICAL}

StopsRun_Never(r) == FALSE

StopsRun(r) == r = FAIL_CRITICAL

\* the first group at or after g that passes the tag filter; Len(tests) + 1
\* when the outer loop has run out
RECURSIVE NextGroup(_, _)
NextGroup(g, tags) ==
  IF g > Len(tests) THEN g
  ELSE IF GroupSelected(tests[g], tags) THEN g
       ELSE NextGroup(g + 1, tags)

\* the two early returns before the catalogue is walked

\* the standby state of the remote is not looked at
RunStarts_StandbyIgnored(power_ok, remote_standby, interactive) == power_ok

RunStarts(power_ok, remote_standby, interactive) ==
  power_ok /\ ~(remote_standby /\ ~interactive)

\* const __u8 unknown_opcode = 0xfe;
unknown_opcode == 254

\* The tables are followed, during a run, for the opcode core_unknown sends:
\* its reply is classified as recognized, as unrecognized, or not at all
\* (time out).
SubtestMarks(fn) ==
  IF fn = "core_unknown" THEN {"none", "recognized", "unrecognized"}
  ELSE {"none"}

\* doioctl(node, CEC_ADAP_G_LOG_ADDRS, &laddrs) is reached for a standby
\* subtest that was not skipped by the CEC 2.0 test before it; the adapter
\* then has logical addresses or has none
MaskReads(subtest, ver, has20, last) ==
  IF subtest.in_standby /\ ~Cec20Unmet(subtest, ver, has20)
  THEN {{}, LocalLA}
  ELSE {last}

MarkRecognized(rec, r, op) == [rec EXCEPT ![r] = @ \cup {op}]

MarkUnrecognized(unrec, r, op) == [unrec EXCEPT ![r] = @ \cup {op}]

(***************************************************************************)
(* Initial states.                                                         *)
(***************************************************************************)
InitCommon ==
  /\ mapTests = EmptyMap
  /\ mapTestsNoWarnings = EmptyMap
  /\ nexpect = 0
  /\ opt_arg = [optarg |-> OptArg("", FALSE, ""), no_warnings |-> FALSE]
  /\ opt_ret = 0
  /\ la = 0
  /\ test_tags = {}
  /\ log_addr_mask = LocalLA
  /\ gi = 1
  /\ si = 1
  /\ ret = 0
  /\ raw = 0
  /\ has_warnings = FALSE
  /\ warnings = 0
  /\ in_standby = FALSE
  /\ invoked = << >>
  /\ skipped = << >>
  /\ groups_run = << >>
  /\ report = NoLine
  /\ recognized_op = [r \in RemoteLAs |-> {}]
  /\ unrecognized_op = [r \in RemoteLAs |-> {}]
  /\ nmarks = 0
  /\ check_ret = 0
  /\ check_la = 0
  /\ col = CollectStart

\* no subtest function is followed step by step
NoMsg == [tx_ok |-> TRUE, status |-> "none"]

InitUnit ==
  /\ test_fn = ""
  /\ step = "none"
  /\ fret = 0
  /\ sent = 0
  /\ detected = FALSE
  /\ msg = NoMsg
  /\ idx = 0
  /\ replies = << >>
  /\ deck_status = "0"
  /\ has_deck_ctl = FALSE
  /\ info = << >>
  /\ info_vec = << >>
  /\ current_time = [year |-> 1970, mon |-> 1, mday |-> 1, hour |-> 0, min |-> 0]
  /\ timers = {}
  /\ elapsed = 0
  /\ has_cdc = FALSE
  /\ has_osd = [l \in RemoteLAs |-> FALSE]
  /\ pass = 1
  /\ answers = << >>
  /\ lines = << >>
  /\ first_pass = << >>
  /\ adapter = << >>
  /\ prim_type = "TV"
  /\ remote_la_mask = {}
  /\ phys_addr = "1.0.0.0"
  /\ mode = mode_set_initiator
  /\ has_remote_control_passthrough = FALSE
  /\ call = [power_ok |-> TRUE, remote_in_standby |-> FALSE, interactive |-> FALSE]

Init ==
  /\ InitCommon
  /\ InitUnit
  /\ pc = "start"
  /\ cat = << >>
  /\ cec_version \in {CEC_OP_CEC_VERSION_1_4, CEC_OP_CEC_VERSION_2_0}
  /\ has_cec20 \in BOOLEAN

(***************************************************************************)
(* Actions of a run: main calls collectTests, then setExpectedResult for   *)
(* every expectation option, then testRemote.                              *)
(***************************************************************************)
CollectTestsRun ==
  /\ pc = "start"
  /\ LET r == collectTests(tests)
     IN  /\ mapTests' = r.mapTests
         /\ mapTestsNoWarnings' = r.mapTestsNoWarnings
         /\ pc' = IF r.exited THEN "exited" ELSE "config"
  /\ UNCHANGED << nexpect, opt_arg, opt_ret, nodeVars, runVars, tableVars, trackVars,
                  collectVars, unitVars >>

SetExpected ==
  /\ pc = "config"
  /\ nexpect < MaxExpect
  /\ \E optarg \in ExpectArgs, no_warnings \in BOOLEAN :
       LET r == setExpectedResult(mapTests, mapTestsNoWarnings, optarg, no_warnings)
       IN  /\ mapTests' = r.mapTests
           /\ mapTestsNoWarnings' = r.mapTestsNoWarnings
           /\ opt_ret' = r.ret
           /\ opt_arg' = [optarg |-> optarg, no_warnings |-> no_warnings]
  /\ nexpect' = nexpect + 1
  /\ UNCHANGED << pc, nodeVars, runVars, tableVars, trackVars, collectVars, unitVars >>

\* testRemote up to its loop
StartWith(selections) ==
  /\ pc = "config"
  /\ \E l \in RemoteLAs, tags \in selections,
        power_ok \in BOOLEAN, remote_standby \in BOOLEAN, interactive \in BOOLEAN :
       /\ la' = l
       /\ test_tags' = tags
       /\ pc' = IF RunStarts(power_ok, remote_standby, interactive)
                THEN "group" ELSE "aborted"
  /\ ret' = 0
  /\ gi' = 1
  /\ UNCHANGED << configVars, nodeVars, log_addr_mask, si, raw, has_warnings,
                  warnings, in_standby, invoked, skipped, groups_run, report,
                  tableVars, trackVars, collectVars, unitVars >>

TestRemoteStart == StartWith(TagSelections)

TestRemoteStartExpect == StartWith(ExpectTagSelections)

\* the outer loop: skip the groups the tag filter rejects, print the header
\* of the next one, or leave the loop
EnterGroup ==
  /\ pc = "group"
  /\ LET g == NextGroup(gi, test_tags)
     IN  IF g > Len(tests)
         THEN /\ pc' = "done"
              /\ gi' = g
              /\ UNCHANGED << si, groups_run >>
         ELSE /\ groups_run' = Append(groups_run, g)
              /\ si' = 1
              /\ IF tests[g].subtests = << >>
                 THEN gi' = g + 1 /\ pc' = "group"
                 ELSE gi' = g /\ pc' = "subtest"
  /\ UNCHANGED << configVars, nodeVars, la, test_tags, log_addr_mask, ret, raw,
                  has_warnings, warnings, in_standby, invoked, skipped, report,
                  tableVars, trackVars, collectVars, unitVars >>

\* where the inner loop goes after the iteration for position si
Advance ==
  IF si < Len(tests[gi].subtests)
  THEN /\ si' = si + 1
       /\ gi' = gi
       /\ pc' = "subtest"
  ELSE /\ si' = 1
       /\ gi' = gi + 1
       /\ pc' = "group"

\* one iteration of the inner loop that ends in a continue
SkipSubtest ==
  /\ pc = "subtest"
  /\ \E m \in MaskReads(SubtestAt(gi, si), cec_version, has_cec20, log_addr_mask) :
       /\ Skips(SubtestAt(gi, si), cec_version, has_cec20, m, la)
       /\ log_addr_mask' = m
  /\ skipped' = Append(skipped, EntryAt(gi, si))
  /\ Advance
  /\ UNCHANGED << configVars, nodeVars, la, test_tags, ret, raw,
                  has_warnings, warnings, in_standby, invoked, groups_run, report,
                  tableVars, trackVars, collectVars, unitVars >>

\* one iteration of the inner loop that calls the subtest
InvokeSubtest ==
  /\ pc = "subtest"
  /\ LET subtest == SubtestAt(gi, si)
         key == safename(subtest.name)
     IN  /\ \E m \in MaskReads(subtest, cec_version, has_cec20, log_addr_mask) :
              /\ ~Skips(subtest, cec_version, has_cec20, m, la)
              /\ log_addr_mask' = m
         /\ in_standby' = subtest.in_standby
         /\ \E r \in Returns(subtest.test_fn, recognized_op, unrecognized_op, la),
               w \in {warnings} \cup (IF warnings < MaxWarnings THEN {warnings + 1} ELSE {}),
               mark \in SubtestMarks(subtest.test_fn) :
              /\ raw' = r
              /\ warnings' = w
              /\ has_warnings' = HasWarnings(warnings, w)
              /\ recognized_op' =
                   IF mark = "recognized"
                   THEN MarkRecognized(recognized_op, la, unknown_opcode)
                   ELSE recognized_op
              /\ unrecognized_op' =
                   IF mark = "unrecognized"
                   THEN MarkUnrecognized(unrecognized_op, la, unknown_opcode)
                   ELSE unrecognized_op
              /\ ret' = Escalate(subtest, la, r)
         /\ report' = PrintResult(subtest.name, ret', has_warnings', mapTests,
                                  mapTestsNoWarnings)
         /\ mapTests' = MapTouch(mapTests, key, 0)
         /\ mapTestsNoWarnings' =
              IF MapGet(mapTests, key, 0) # DONT_CARE
                 /\ ret' = MapGet(mapTests, key, 0) /\ has_warnings'
              THEN MapTouch(mapTestsNoWarnings, key, FALSE)
              ELSE mapTestsNoWarnings
         /\ invoked' = Append(invoked, EntryAt(gi, si))
         /\ IF StopsRun(ret')
            THEN /\ pc' = "done"
                 /\ UNCHANGED << gi, si >>
            ELSE Advance
  /\ UNCHANGED << nexpect, opt_arg, opt_ret, nodeVars, la, test_tags, skipped, groups_run,
                  trackVars, collectVars, unitVars >>

(***************************************************************************)
(* Runs with operator expectations.                                        *)
(***************************************************************************)
InitExpect ==
  /\ InitCommon
  /\ InitUnit
  /\ pc = "start"
  /\ cat = << >>
  /\ cec_version = CEC_OP_CEC_VERSION_2_0
  /\ has_cec20 = TRUE

NextExpect ==
  \/ CollectTestsRun
  \/ SetExpected
  \/ TestRemoteStartExpect
  \/ EnterGroup
  \/ SkipSubtest
  \/ InvokeSubtest

SpecExpect == InitExpect /\ [][NextExpect]_vars


(***************************************************************************)
(* Runs with operator expectations over the groups whose subtests can fail *)
(* as expected or be not applicable.                                       *)
(***************************************************************************)
ReportTagSelections ==
  { {"TAG_REMOTE_CONTROL_PASSTHROUGH"}, {"TAG_OSD_DISPLAY"},
    {"TAG_POWER_STATUS", "TAG_STANDBY_RESUME"} }

TestRemoteStartReport == StartWith(ReportTagSelections)

NextReport ==
  \/ CollectTestsRun
  \/ SetExpected
  \/ TestRemoteStartReport
  \/ EnterGroup
  \/ SkipSubtest
  \/ InvokeSubtest

SpecReport == InitExpect /\ [][NextReport]_vars



(***************************************************************************)
(* The expectation options followed by a run over one group.               *)
(***************************************************************************)
OptionTagSelections == { {"TAG_DEVICE_MENU_CONTROL"} }

TestRemoteStartOptions == StartWith(OptionTagSelections)

NextOptions ==
  \/ CollectTestsRun
  \/ SetExpected
  \/ TestRemoteStartOptions
  \/ EnterGroup
  \/ InvokeSubtest

SpecOptions == InitExpect /\ [][NextOptions]_vars

(***************************************************************************)
(* collectTests on its own, for any small catalogue.                       *)
(***************************************************************************)
InitCollect ==
  /\ InitCommon
  /\ InitUnit
  /\ pc = "collect"
  /\ cec_version = CEC_OP_CEC_VERSION_2_0
  /\ has_cec20 = TRUE
  /\ cat \in CollectCatalogues(MaxEntries)

CollectTestsAlone ==
  /\ pc = "collect"
  /\ col' = collectTests(cat)
  /\ pc' = IF col'.exited THEN "exited" ELSE "collected"
  /\ UNCHANGED << configVars, nodeVars, runVars, tableVars, trackVars, cat, unitVars >>

NextCollect == CollectTestsAlone

SpecCollect == InitCollect /\ [][NextCollect]_vars

(***************************************************************************)
(* The recognized/unrecognized tables on their own: replies are classified *)
(* over a run, then the post-test check is made for one remote.            *)
(***************************************************************************)
InitTrack ==
  /\ InitCommon
  /\ InitUnit
  /\ pc = "track"
  /\ cat = << >>
  /\ cec_version = CEC_OP_CEC_VERSION_2_0
  /\ has_cec20 = TRUE

TrackRecognized ==
  /\ pc = "track"
  /\ nmarks < MaxMarks
  /\ \E r \in RemoteLAs, op \in TrackOps :
       recognized_op' = MarkRecognized(recognized_op, r, op)
  /\ nmarks' = nmarks + 1
  /\ UNCHANGED << pc, configVars, nodeVars, runVars, unrecognized_op, check_ret,
                  check_la, collectVars, unitVars >>

TrackUnrecognized ==
  /\ pc = "track"
  /\ nmarks < MaxMarks
  /\ \E r \in RemoteLAs, op \in TrackOps :
       unrecognized_op' = MarkUnrecognized(unrecognized_op, r, op)
  /\ nmarks' = nmarks + 1
  /\ UNCHANGED << pc, configVars, nodeVars, runVars, recognized_op, check_ret,
                  check_la, collectVars, unitVars >>

PostTestCheck ==
  /\ pc = "track"
  /\ \E l \in RemoteLAs :
       /\ check_la' = l
       /\ check_ret' = post_test_check_recognized(recognized_op, unrecognized_op, l)
  /\ pc' = "checked"
  /\ UNCHANGED << configVars, nodeVars, runVars, tableVars, nmarks, collectVars, unitVars >>

NextTrack ==
  \/ TrackRecognized
  \/ TrackUnrecognized
  \/ PostTestCheck

SpecTrack == InitTrack /\ [][NextTrack]_vars

Next ==
  \/ CollectTestsRun
  \/ TestRemoteStart
  \/ EnterGroup
  \/ SkipSubtest
  \/ InvokeSubtest

Spec == Init /\ [][Next]_vars


(***************************************************************************)
(* Subtest functions followed step by step.  A step is one transmission    *)
(* with the checks made on its reply.  The reply is the environment's:     *)
(* the transmission fails, or it succeeds and the message comes back       *)
(* without reply, timed out, or feature-aborted with some reason.          *)
(***************************************************************************)
Statuses ==
  {"ok", "timed_out", "abort_unrecognized", "abort_refused",
   "abort_incorrect_mode", "abort_invalid_op"}

Replies ==
  {[tx_ok |-> FALSE, status |-> "none"]}
    \cup {[tx_ok |-> TRUE, status |-> s] : s \in Statuses}

\* the predicates of cec-compliance.h on a transmitted message
timed_out(m) == m.status = "timed_out"

cec_msg_status_is_abort(m) ==
  m.status \in {"abort_unrecognized", "abort_refused", "abort_incorrect_mode",
                "abort_invalid_op"}

timed_out_or_abort(m) == timed_out(m) \/ cec_msg_status_is_abort(m)

\* unrecognized_op(&msg)
is_unrecognized_op(m) == m.status = "abort_unrecognized"

refused(m) == m.status = "abort_refused"

incorrect_mode(m) == m.status = "abort_incorrect_mode"

\* fail_on_test_v2(version, test)
fail_on_test_v2(version, test) == version >= CEC_OP_CEC_VERSION_2_0 /\ test

\* if (ret) return ret; and fail_on_test(helper(...))
HelperFailed_Ignored(r) == FALSE

HelperFailed(r) == r # 0

\* the function returns code; viol tells whether a check found a violation
Return(code, viol) ==
  /\ fret' = code
  /\ step' = "returned"
  /\ detected' = viol

\* the function goes on with the step at s
Goto(s, viol) ==
  /\ step' = s
  /\ detected' = (detected \/ viol)
  /\ UNCHANGED fret

\* deck_status_get: [ret, deck_status] for the reply m to Give Deck Status
\* that reports status d; the deck states are kept by their names, and "0"
\* is the value deck_status is given before the message is sent
deck_status_get(m, d) ==
  IF ~m.tx_ok \/ timed_out_or_abort(m)
  THEN [ret |-> FAIL, deck_status |-> "0"]
  ELSE [ret |-> OK, deck_status |-> d]

\* the deck states a Deck Status reply reports
DeckInfos ==
  {"CEC_OP_DECK_INFO_PLAY", "CEC_OP_DECK_INFO_STILL", "CEC_OP_DECK_INFO_PLAY_REV",
   "CEC_OP_DECK_INFO_FAST_FWD", "CEC_OP_DECK_INFO_FAST_REV",
   "CEC_OP_DECK_INFO_SLOW", "CEC_OP_DECK_INFO_SLOW_REV",
   "CEC_OP_DECK_INFO_NO_MEDIA"}

\* the test_play_mode calls of deck_ctl_play: << play_mode, expected >>
PlayModes ==
  << << "CEC_OP_PLAY_MODE_PLAY_STILL", "CEC_OP_DECK_INFO_STILL" >>,
     << "CEC_OP_PLAY_MODE_PLAY_REV", "CEC_OP_DECK_INFO_PLAY_REV" >>,
     << "CEC_OP_PLAY_MODE_PLAY_FAST_FWD_MIN", "CEC_OP_DECK_INFO_FAST_FWD" >>,
     << "CEC_OP_PLAY_MODE_PLAY_FAST_REV_MIN", "CEC_OP_DECK_INFO_FAST_REV" >>,
     << "CEC_OP_PLAY_MODE_PLAY_FAST_FWD_MED", "CEC_OP_DECK_INFO_FAST_FWD" >>,
     << "CEC_OP_PLAY_MODE_PLAY_FAST_REV_MED", "CEC_OP_DECK_INFO_FAST_REV" >>,
     << "CEC_OP_PLAY_MODE_PLAY_FAST_FWD_MAX", "CEC_OP_DECK_INFO_FAST_FWD" >>,
     << "CEC_OP_PLAY_MODE_PLAY_FAST_REV_MAX", "CEC_OP_DECK_INFO_FAST_REV" >>,
     << "CEC_OP_PLAY_MODE_PLAY_SLOW_FWD_MIN", "CEC_OP_DECK_INFO_SLOW" >>,
     << "CEC_OP_PLAY_MODE_PLAY_SLOW_REV_MIN", "CEC_OP_DECK_INFO_SLOW_REV" >>,
     << "CEC_OP_PLAY_MODE_PLAY_SLOW_FWD_MED", "CEC_OP_DECK_INFO_SLOW" >>,
     << "CEC_OP_PLAY_MODE_PLAY_SLOW_REV_MED", "CEC_OP_DECK_INFO_SLOW_REV" >>,
     << "CEC_OP_PLAY_MODE_PLAY_SLOW_FWD_MAX", "CEC_OP_DECK_INFO_SLOW" >>,
     << "CEC_OP_PLAY_MODE_PLAY_SLOW_REV_MAX", "CEC_OP_DECK_INFO_SLOW_REV" >> >>


\* a subtest function is called for a remote
StartSubtest(fns) ==
  /\ pc = "unit"
  /\ \E f \in fns, l \in RemoteLAs, d \in BOOLEAN :
       /\ test_fn' = f
       /\ la' = l
       /\ has_deck_ctl' = d
  /\ pc' = "running"
  /\ step' = "start"
  /\ UNCHANGED << configVars, nodeVars, auxVars, passVars, tableVars, trackVars,
                  collectVars, fret, sent, detected, msg, idx, replies,
                  deck_status,
                  tunerVars, timerVars >>

(***************************************************************************)
(* deck_ctl_play, with test_play_mode and deck_status_get                  *)
(***************************************************************************)
\* Play forward is sent; the checks up to "if (refused(&msg))"
DeckCtlPlay_Play ==
  /\ pc = "running" /\ test_fn = "deck_ctl_play" /\ step = "start"
  /\ \E m \in Replies :
       /\ msg' = m
       /\ IF ~m.tx_ok
          THEN Return(FAIL, TRUE)
          ELSE IF \/ fail_on_test_v2(cec_version, has_deck_ctl /\ is_unrecognized_op(m))
                  \/ fail_on_test_v2(cec_version, ~has_deck_ctl /\ ~is_unrecognized_op(m))
               THEN Return(FAIL, TRUE)
               ELSE IF is_unrecognized_op(m)
                    THEN Return(OK_NOT_SUPPORTED, FALSE)
                    ELSE IF refused(m)
                         THEN Return(OK_REFUSED, FALSE)
                         ELSE Goto("deck_status", FALSE)
  /\ sent' = sent + 1
  /\ UNCHANGED << engineVars, auxVars, replies, pc, test_fn, idx, deckVars, tunerVars, timerVars >>

\* deck_status_get is called; the checks up to the first test_play_mode
DeckCtlPlay_Status ==
  /\ pc = "running" /\ test_fn = "deck_ctl_play" /\ step = "deck_status"
  /\ \E m \in Replies, d \in DeckInfos :
       LET r == deck_status_get(m, d)
       IN  /\ deck_status' = r.deck_status
           /\ IF HelperFailed(r.ret)
              THEN Return(FAIL, TRUE)
              ELSE IF cec_msg_status_is_abort(msg)
                   THEN IF ~incorrect_mode(msg)
                        THEN Return(FAIL, TRUE)
                        ELSE Return(OK, r.ret # 0)
                   ELSE IF r.deck_status # "CEC_OP_DECK_INFO_PLAY"
                        THEN Return(FAIL, TRUE)
                        ELSE Goto("play_mode", r.ret # 0)
  /\ sent' = sent + 1
  /\ idx' = 1
  /\ UNCHANGED << engineVars, auxVars, replies, pc, test_fn, msg, has_deck_ctl, tunerVars, timerVars >>

\* fail_on_test(test_play_mode(...)) for the call at idx, which returned r
AfterPlayMode(r) ==
  IF HelperFailed(r)
  THEN Return(FAIL, TRUE) /\ UNCHANGED idx
  ELSE IF idx < Len(PlayModes)
       THEN Goto("play_mode", r # 0) /\ idx' = idx + 1
       ELSE Goto("stop", r # 0) /\ UNCHANGED idx

\* test_play_mode sends Play with the mode at idx
TestPlayMode_Play ==
  /\ pc = "running" /\ test_fn = "deck_ctl_play" /\ step = "play_mode"
  /\ \E m \in Replies :
       IF ~m.tx_ok \/ cec_msg_status_is_abort(m)
       THEN AfterPlayMode(FAIL)
       ELSE Goto("play_mode_status", FALSE) /\ UNCHANGED idx
  /\ sent' = sent + 1
  /\ UNCHANGED << engineVars, auxVars, replies, pc, test_fn, msg, deckVars, tunerVars, timerVars >>

\* test_play_mode calls deck_status_get and compares with the expected state
TestPlayMode_Status ==
  /\ pc = "running" /\ test_fn = "deck_ctl_play" /\ step = "play_mode_status"
  /\ \E m \in Replies, d \in DeckInfos :
       LET r == deck_status_get(m, d)
       IN  /\ deck_status' = r.deck_status
           /\ IF r.ret # 0 \/ r.deck_status # PlayModes[idx][2]
              THEN AfterPlayMode(FAIL)
              ELSE AfterPlayMode(OK)
  /\ sent' = sent + 1
  /\ UNCHANGED << engineVars, auxVars, replies, pc, test_fn, msg, has_deck_ctl, tunerVars, timerVars >>

\* Deck Control Stop is sent
DeckCtlPlay_Stop ==
  /\ pc = "running" /\ test_fn = "deck_ctl_play" /\ step = "stop"
  /\ \E m \in Replies :
       IF ~m.tx_ok THEN Return(FAIL, TRUE) ELSE Return(OK, FALSE)
  /\ sent' = sent + 1
  /\ UNCHANGED << engineVars, auxVars, replies, pc, test_fn, msg, idx, deckVars, tunerVars, timerVars >>


(***************************************************************************)
(* tuner_ctl_test, with log_tuner_service                                  *)
(***************************************************************************)
MaxServices == 3

CEC_OP_ANA_BCAST_TYPE_TERRESTRIAL == 2

CEC_OP_SERVICE_ID_METHOD_BY_CHANNEL == 1

\* struct cec_op_tuner_device_info, analogue and digital
AInfo(sys, type, freq) ==
  [is_analog |-> TRUE, bcast_system |-> sys, ana_bcast_type |-> type,
   ana_freq |-> freq, service_id_method |-> 0, channel_number_fmt |-> "none",
   dig_bcast_system |-> "none"]

DInfo(method, fmt, sys) ==
  [is_analog |-> FALSE, bcast_system |-> "none", ana_bcast_type |-> 0,
   ana_freq |-> 0, service_id_method |-> method, channel_number_fmt |-> fmt,
   dig_bcast_system |-> sys]

\* the cases of the switch on info.analog.bcast_system
AnalogBcastSystems ==
  {"CEC_OP_BCAST_SYSTEM_PAL_BG", "CEC_OP_BCAST_SYSTEM_SECAM_LQ",
   "CEC_OP_BCAST_SYSTEM_PAL_M", "CEC_OP_BCAST_SYSTEM_NTSC_M",
   "CEC_OP_BCAST_SYSTEM_PAL_I", "CEC_OP_BCAST_SYSTEM_SECAM_DK",
   "CEC_OP_BCAST_SYSTEM_SECAM_BG", "CEC_OP_BCAST_SYSTEM_SECAM_L",
   "CEC_OP_BCAST_SYSTEM_PAL_DK"}

\* the cases of the second switch on info.digital.dig_bcast_system
DigitalBcastSystems ==
  {"CEC_OP_DIG_SERVICE_BCAST_SYSTEM_ARIB_GEN", "CEC_OP_DIG_SERVICE_BCAST_SYSTEM_ATSC_GEN",
   "CEC_OP_DIG_SERVICE_BCAST_SYSTEM_DVB_GEN", "CEC_OP_DIG_SERVICE_BCAST_SYSTEM_ARIB_BS",
   "CEC_OP_DIG_SERVICE_BCAST_SYSTEM_ARIB_CS", "CEC_OP_DIG_SERVICE_BCAST_SYSTEM_ARIB_T",
   "CEC_OP_DIG_SERVICE_BCAST_SYSTEM_ATSC_CABLE", "CEC_OP_DIG_SERVICE_BCAST_SYSTEM_ATSC_SAT",
   "CEC_OP_DIG_SERVICE_BCAST_SYSTEM_ATSC_T", "CEC_OP_DIG_SERVICE_BCAST_SYSTEM_DVB_C",
   "CEC_OP_DIG_SERVICE_BCAST_SYSTEM_DVB_S", "CEC_OP_DIG_SERVICE_BCAST_SYSTEM_DVB_S2",
   "CEC_OP_DIG_SERVICE_BCAST_SYSTEM_DVB_T"}

\* the value log_tuner_service returns for i
log_tuner_service(i) ==
  IF i.is_analog
  THEN IF i.bcast_system \notin AnalogBcastSystems
       THEN FAIL
       ELSE IF i.ana_bcast_type > CEC_OP_ANA_BCAST_TYPE_TERRESTRIAL
            THEN FAIL
            ELSE IF i.ana_freq = 0 THEN FAIL ELSE 0
  ELSE IF i.service_id_method # 0
       THEN IF i.channel_number_fmt \in {"CEC_OP_CHANNEL_NUMBER_FMT_2_PART",
                                         "CEC_OP_CHANNEL_NUMBER_FMT_1_PART"}
            THEN 0
            ELSE FAIL
       ELSE IF i.dig_bcast_system \notin DigitalBcastSystems
            THEN FAIL
            ELSE IF i.service_id_method > CEC_OP_SERVICE_ID_METHOD_BY_CHANNEL
                 THEN FAIL
                 ELSE 0

\* the services a Tuner Device Status reply reports
TunerInfos ==
  { AInfo("CEC_OP_BCAST_SYSTEM_PAL_BG", 0, 7668),
    AInfo("CEC_OP_BCAST_SYSTEM_OTHER", 0, 7668),
    AInfo("CEC_OP_BCAST_SYSTEM_PAL_BG", 3, 7668),
    AInfo("CEC_OP_BCAST_SYSTEM_PAL_BG", 0, 0),
    DInfo(0, "none", "CEC_OP_DIG_SERVICE_BCAST_SYSTEM_DVB_T"),
    DInfo(0, "none", "unknown"),
    DInfo(1, "CEC_OP_CHANNEL_NUMBER_FMT_1_PART", "CEC_OP_DIG_SERVICE_BCAST_SYSTEM_ATSC_T"),
    DInfo(1, "none", "CEC_OP_DIG_SERVICE_BCAST_SYSTEM_ATSC_T") }

\* bool has_tuner = (1 << la) & (CEC_LOG_ADDR_MASK_TV | CEC_LOG_ADDR_MASK_TUNER);
has_tuner(l) == ({l} \cap (CEC_LOG_ADDR_MASK_TV \cup CEC_LOG_ADDR_MASK_TUNER)) # {}


\* Give Tuner Device Status is sent; the checks up to the scan loop
TunerCtl_Status ==
  /\ pc = "running" /\ test_fn = "tuner_ctl_test" /\ step = "start"
  /\ \E m \in Replies, i \in TunerInfos :
       IF ~m.tx_ok
       THEN Return(FAIL, TRUE) /\ UNCHANGED tunerVars
       ELSE IF ~has_tuner(la) /\ ~timed_out_or_abort(m)
            THEN Return(FAIL, TRUE) /\ UNCHANGED tunerVars
            ELSE IF ~has_tuner(la) \/ timed_out(m) \/ is_unrecognized_op(m)
                 THEN Return(OK_NOT_SUPPORTED, FALSE) /\ UNCHANGED tunerVars
                 ELSE IF cec_msg_status_is_abort(m)
                      THEN Return(OK_REFUSED, FALSE) /\ UNCHANGED tunerVars
                      ELSE /\ info' = i
                           /\ info_vec' = << i >>
                           /\ IF HelperFailed(log_tuner_service(i))
                              THEN Return(log_tuner_service(i), TRUE)
                              ELSE Goto("scan", log_tuner_service(i) # 0)
  /\ sent' = sent + 1
  /\ UNCHANGED << engineVars, auxVars, replies, pc, test_fn, msg, idx, deckVars, timerVars >>

\* the scan loop: Tuner Step Increment is sent
TunerCtl_StepIncrement ==
  /\ pc = "running" /\ test_fn = "tuner_ctl_test" /\ step = "scan"
  /\ \E m \in Replies :
       IF ~m.tx_ok \/ cec_msg_status_is_abort(m)
       THEN Return(FAIL, TRUE)
       ELSE Goto("scan_status", FALSE)
  /\ sent' = sent + 1
  /\ UNCHANGED << engineVars, auxVars, replies, pc, test_fn, msg, idx, deckVars, tunerVars, timerVars >>

\* the scan loop: Give Tuner Device Status is sent and the service reported
\* is logged and kept, or the scan ends because it is the first one again
TunerCtl_ScanStatus ==
  /\ pc = "running" /\ test_fn = "tuner_ctl_test" /\ step = "scan_status"
  /\ \E m \in Replies, i \in TunerInfos :
       IF ~m.tx_ok \/ timed_out_or_abort(m)
       THEN Return(FAIL, TRUE) /\ UNCHANGED << idx, tunerVars, timerVars >>
       ELSE /\ info' = i
            /\ IF i = info_vec[1]
               THEN /\ Goto("select", FALSE)
                    /\ idx' = 1
                    /\ UNCHANGED info_vec
               ELSE IF HelperFailed(log_tuner_service(i))
                    THEN /\ Return(log_tuner_service(i), TRUE)
                         /\ UNCHANGED << idx, info_vec >>
                    ELSE /\ Len(info_vec) < MaxServices
                         /\ info_vec' = Append(info_vec, i)
                         /\ Goto("scan", log_tuner_service(i) # 0)
                         /\ UNCHANGED idx
  /\ sent' = sent + 1
  /\ UNCHANGED << engineVars, auxVars, replies, pc, test_fn, msg, deckVars, timerVars >>

\* the test loop: log_tuner_service(iter, "Select "), its value not used
TunerCtl_LogSelect ==
  /\ pc = "running" /\ test_fn = "tuner_ctl_test" /\ step = "select"
  /\ Goto("select_send", log_tuner_service(info_vec[idx]) # 0)
  /\ UNCHANGED << engineVars, auxVars, replies, pc, test_fn, sent, msg, idx, deckVars, tunerVars, timerVars >>

\* the test loop: the service at idx is selected
TunerCtl_Select ==
  /\ pc = "running" /\ test_fn = "tuner_ctl_test" /\ step = "select_send"
  /\ \E m \in Replies :
       IF ~m.tx_ok \/ cec_msg_status_is_abort(m)
       THEN Return(FAIL, TRUE)
       ELSE Goto("select_status", FALSE)
  /\ sent' = sent + 1
  /\ UNCHANGED << engineVars, auxVars, replies, pc, test_fn, msg, idx, deckVars, tunerVars, timerVars >>

\* the test loop: the status is read back and compared with the service
TunerCtl_SelectStatus ==
  /\ pc = "running" /\ test_fn = "tuner_ctl_test" /\ step = "select_status"
  /\ \E m \in Replies, i \in TunerInfos :
       IF ~m.tx_ok \/ timed_out_or_abort(m)
       THEN Return(FAIL, TRUE) /\ UNCHANGED << idx, info >>
       ELSE /\ info' = i
            /\ IF i # info_vec[idx]
               THEN Return(FAIL, TRUE) /\ UNCHANGED idx
               ELSE IF idx < Len(info_vec)
                    THEN Goto("select", FALSE) /\ idx' = idx + 1
                    ELSE Goto("invalid_analog", FALSE) /\ UNCHANGED idx
  /\ sent' = sent + 1
  /\ UNCHANGED << engineVars, auxVars, replies, pc, test_fn, msg, deckVars, timerVars, info_vec >>

\* an invalid analogue, then an invalid digital service is selected
TunerCtl_SelectInvalid ==
  /\ pc = "running" /\ test_fn = "tuner_ctl_test"
  /\ step \in {"invalid_analog", "invalid_digital"}
  /\ \E m \in Replies :
       IF ~m.tx_ok \/ ~cec_msg_status_is_abort(m) \/ m.status # "abort_invalid_op"
       THEN Return(FAIL, TRUE)
       ELSE IF step = "invalid_analog"
            THEN Goto("invalid_digital", FALSE)
            ELSE Return(0, FALSE)
  /\ sent' = sent + 1
  /\ UNCHANGED << engineVars, auxVars, replies, pc, test_fn, msg, idx, deckVars, tunerVars, timerVars >>

InitSteps ==
  /\ InitCommon
  /\ InitUnit
  /\ pc = "unit"
  /\ cat = << >>
  /\ cec_version \in {CEC_OP_CEC_VERSION_1_4, CEC_OP_CEC_VERSION_2_0}
  /\ has_cec20 = TRUE

StartStepSubtest == StartSubtest({"deck_ctl_play", "tuner_ctl_test"})

NextSteps ==
  \/ StartStepSubtest
  \/ DeckCtlPlay_Play
  \/ DeckCtlPlay_Status
  \/ TestPlayMode_Play
  \/ TestPlayMode_Status
  \/ DeckCtlPlay_Stop
  \/ TunerCtl_Status
  \/ TunerCtl_StepIncrement
  \/ TunerCtl_ScanStatus
  \/ TunerCtl_LogSelect
  \/ TunerCtl_Select
  \/ TunerCtl_SelectStatus
  \/ TunerCtl_SelectInvalid

SpecSteps == InitSteps /\ [][NextSteps]_vars


(***************************************************************************)
(* core_unknown                                                            *)
(***************************************************************************)
\* fail_or_warn(node, ...): a warning while the remote is in standby, a
\* failure otherwise
fail_or_warn(standby) == IF standby THEN 0 ELSE FAIL

\* the opcodes a Feature Abort can name as the aborted one
AbortedOpcodes == {unknown_opcode, 0}

\* the ways the message with the unknown opcode comes back
UnknownReplies ==
  {[tx_ok |-> FALSE, status |-> "none", abort_msg |-> 0]}
    \cup {[tx_ok |-> TRUE, status |-> s, abort_msg |-> 0] :
            s \in {"ok", "timed_out"}}
    \cup {[tx_ok |-> TRUE, status |-> s, abort_msg |-> o] :
            s \in {"abort_unrecognized", "abort_refused", "abort_invalid_op"},
            o \in AbortedOpcodes}

\* testRemote sets node->in_standby and calls core_unknown
StartCoreUnknown ==
  /\ pc = "unit"
  /\ \E l \in RemoteLAs, sb \in BOOLEAN :
       /\ la' = l
       /\ in_standby' = sb
  /\ test_fn' = "core_unknown"
  /\ pc' = "running"
  /\ step' = "start"
  /\ UNCHANGED << configVars, nodeVars, auxVars, test_tags, log_addr_mask, gi, si, ret,
                  raw, has_warnings, warnings, invoked, skipped, groups_run,
                  report, tableVars, trackVars, collectVars, fret, sent,
                  detected, msg, idx, replies, deckVars, tunerVars, timerVars >>

\* the unknown opcode is sent to the remote
CoreUnknown_Directed ==
  /\ pc = "running" /\ test_fn = "core_unknown" /\ step = "start"
  /\ \E m \in UnknownReplies :
       /\ msg' = m
       /\ replies' = Append(replies, m)
       /\ IF ~m.tx_ok \/ timed_out(m)
          THEN Return(fail_or_warn(in_standby), ~in_standby)
          ELSE IF \/ ~cec_msg_status_is_abort(m)
                  \/ m.status # "abort_unrecognized"
                  \/ m.abort_msg # unknown_opcode
               THEN Return(FAIL, TRUE)
               ELSE Goto("broadcast", FALSE)
  /\ sent' = sent + 1
  /\ UNCHANGED << engineVars, auxVars, pc, test_fn, idx, deckVars, tunerVars, timerVars >>

\* a broadcast that is answered is not told apart from one that is ignored
BroadcastFails_ReplyAllowed(m) == ~m.tx_ok

\* the two checks on the broadcast: it was sent, and nothing answered it
BroadcastFails(m) == ~m.tx_ok \/ ~timed_out(m)

\* the unknown opcode is broadcast
CoreUnknown_Broadcast ==
  /\ pc = "running" /\ test_fn = "core_unknown" /\ step = "broadcast"
  /\ \E m \in UnknownReplies :
       /\ msg' = m
       /\ replies' = Append(replies, m)
       /\ IF BroadcastFails(m)
          THEN Return(FAIL, TRUE)
          ELSE Return(0, FALSE)
  /\ sent' = sent + 1
  /\ UNCHANGED << engineVars, auxVars, pc, test_fn, idx, deckVars, tunerVars, timerVars >>

InitUnknown ==
  /\ InitCommon
  /\ InitUnit
  /\ pc = "unit"
  /\ cat = << >>
  /\ cec_version \in {CEC_OP_CEC_VERSION_1_4, CEC_OP_CEC_VERSION_2_0}
  /\ has_cec20 \in BOOLEAN

NextUnknown ==
  \/ StartCoreUnknown
  \/ CoreUnknown_Directed
  \/ CoreUnknown_Broadcast

SpecUnknown == InitUnknown /\ [][NextUnknown]_vars


(***************************************************************************)
(* The timer programming subtests.  node->current_time is kept as a        *)
(* calendar date and time; localtime turns it into a struct tm, whose      *)
(* tm_year counts the years since 1900 and whose tm_mon counts from 0.     *)
(***************************************************************************)
Jan == 1
Feb == 2
Aug == 8
Nov == 11
Dec == 12

\* the Gregorian calendar, as the C library applies it
IsLeapYear(y) == y % 4 = 0 /\ (y % 100 # 0 \/ y % 400 = 0)

DaysInMonth(y, m) ==
  IF m = Feb THEN (IF IsLeapYear(y) THEN 29 ELSE 28)
  ELSE IF m \in {4, 6, 9, 11} THEN 30 ELSE 31

\* the date and time h hours after t, for h up to 24
HoursAhead(t, h) ==
  LET hours == t.hour + h
      days == t.mday + (hours \div 24)
      over == days > DaysInMonth(t.year, t.mon)
      months == IF over THEN t.mon + 1 ELSE t.mon
  IN  [year |-> IF months > 12 THEN t.year + 1 ELSE t.year,
       mon |-> IF months > 12 THEN 1 ELSE months,
       mday |-> IF over THEN 1 ELSE days,
       hour |-> hours % 24,
       min |-> t.min]

localtime(t) ==
  [tm_year |-> t.year - 1900, tm_mon |-> t.mon - 1, tm_mday |-> t.mday,
   tm_hour |-> t.hour, tm_min |-> t.min]

\* the remainder of the C language, which takes the sign of the dividend
Rem(a, b) == IF a >= 0 THEN a % b ELSE 0 - ((0 - a) % b)


CEC_OP_REC_SEQ_ONCE_ONLY == 0
CEC_OP_PROG_ERROR_DUPLICATE == 14

\* the operands of a Set or Clear Analogue Timer message
Timer(day, month, start_hr, start_min, dur_hr, dur_min, rec_seq) ==
  [day |-> day, month |-> month, start_hr |-> start_hr,
   start_min |-> start_min, dur_hr |-> dur_hr, dur_min |-> dur_min,
   rec_seq |-> rec_seq]

\* cec_ops_timer_status: msg[2] holds the overlap warning in bit 7, the media
\* info in bits 6-5, the programmed indicator in bit 4, and in the low nibble
\* the programmed info when bit 4 is set, the error info otherwise
cec_ops_timer_status(m) ==
  LET b == m.op2
      programmed == (b \div 16) % 2 = 1
  IN  [timer_overlap_warning |-> b \div 128,
       media_info |-> (b \div 32) % 4,
       prog_info |-> IF programmed THEN b % 16 ELSE 0,
       prog_error |-> IF programmed THEN 0 ELSE b % 16]

\* cec_ops_timer_cleared_status: msg[2] is the status
cec_ops_timer_cleared_status(m) == m.op2

timer_cleared_status_is_valid(m) ==
  IF cec_ops_timer_cleared_status(m) \notin {0, 1, 2, 128} THEN FAIL ELSE OK

\* every Timer Status is taken for an error report
timer_has_error_Always(m) == TRUE

timer_has_error(m) == cec_ops_timer_status(m).prog_error # 0

timer_overlap_warning_is_set(m) ==
  cec_ops_timer_status(m).timer_overlap_warning # 0

\* any Feature Abort is taken for the right rejection
send_timer_error_AnyAbort(m) ==
  IF ~m.tx_ok THEN FAIL
  ELSE IF timed_out(m) THEN FAIL
  ELSE IF cec_msg_status_is_abort(m) THEN OK
  ELSE IF ~timer_has_error(m) THEN FAIL
  ELSE OK

\* send_timer_error, on what comes back for the Set Analogue Timer message
send_timer_error(m) ==
  IF ~m.tx_ok THEN FAIL
  ELSE IF timed_out(m) THEN FAIL
  ELSE IF cec_msg_status_is_abort(m)
       THEN (IF m.status # "abort_invalid_op" THEN FAIL ELSE OK)
  ELSE IF ~timer_has_error(m) THEN FAIL
  ELSE OK

\* the overlap warning of the reply is not looked at
send_timer_overlap_WarningIgnored(m) ==
  IF ~m.tx_ok THEN FAIL
  ELSE IF timed_out_or_abort(m) THEN FAIL
  ELSE IF timer_has_error(m) THEN FAIL
  ELSE OK

\* send_timer_overlap, on what comes back for the Set Analogue Timer message
send_timer_overlap(m) ==
  IF ~m.tx_ok THEN FAIL
  ELSE IF timed_out_or_abort(m) THEN FAIL
  ELSE IF timer_has_error(m) THEN FAIL
  ELSE IF ~timer_overlap_warning_is_set(m) THEN FAIL
  ELSE OK

\* clear_timer, on what comes back for the Clear Analogue Timer message
clear_timer(m) ==
  IF ~m.tx_ok THEN FAIL
  ELSE IF timed_out_or_abort(m) THEN FAIL
  ELSE IF timer_has_error(m) THEN FAIL
  ELSE IF HelperFailed(timer_cleared_status_is_valid(m)) THEN FAIL
  ELSE OK

\* the day of February that timer_errors takes for the first invalid one
last_day_of_february(t) ==
  LET tm == localtime(t)
      tm_year == IF (tm.tm_mon + 1) > Feb THEN tm.tm_year + 1 ELSE tm.tm_year
  IN  IF Rem(tm_year, 4) = 0 /\ (Rem(tm_year, 100) # 0 \/ Rem(tm_year, 400) = 0)
      THEN 30
      ELSE 29

Step(op, t) == [op |-> op, t |-> t]

\* the messages of timer_errors, in order
timer_errors_steps(now) ==
  LET t == localtime(HoursAhead(now, 2))
      once == CEC_OP_REC_SEQ_ONCE_ONLY
      dup == Timer(t.tm_mday, t.tm_mon + 1, t.tm_hour, t.tm_min, 1, 0, once)
  IN  << Step("error", Timer(31, Nov, 6, 0, 1, 0, once)),
         Step("error", Timer(32, Dec, 6, 0, 1, 0, once)),
         Step("error", Timer(0, Jan, 6, 0, 1, 0, once)),
         Step("error", Timer(5, 0, 6, 0, 1, 0, once)),
         Step("error", Timer(5, 13, 6, 0, 1, 0, once)),
         Step("error", Timer(5, Aug, 24, 0, 1, 0, once)),
         Step("error", Timer(5, Aug, 0, 60, 1, 0, once)),
         Step("error", Timer(5, Aug, 6, 0, 0, 0, once)),
         Step("set", dup),
         Step("error", dup),
         Step("clear", dup),
         Step("error", Timer(5, Aug, 6, 0, 1, 0, 255)),
         Step("error", Timer(last_day_of_february(now), Feb, 6, 0, 1, 0, once)) >>

\* the messages of timer_overlap_warning, in order
timer_overlap_warning_steps(now) ==
  LET t == localtime(HoursAhead(now, 24))
      d == t.tm_mday
      m == t.tm_mon + 1
      once == CEC_OP_REC_SEQ_ONCE_ONLY
  IN  << Step("first", Timer(d, m, 8, 0, 2, 0, once)),
         Step("adjacent", Timer(d, m, 10, 0, 0, 15, once)),
         Step("adjacent", Timer(d, m, 7, 45, 0, 15, once)),
         Step("overlap", Timer(d, m, 9, 0, 2, 0, 1)),
         Step("overlap", Timer(d, m, 7, 0, 1, 30, 1)),
         Step("overlap", Timer(d, m, 8, 0, 0, 30, 1)),
         Step("overlap", Timer(d, m, 9, 30, 0, 30, 1)),
         Step("overlap", Timer(d, m, 6, 0, 6, 0, 1)),
         Step("clear", Timer(d, m, 8, 0, 2, 0, once)),
         Step("clear", Timer(d, m, 10, 0, 0, 15, once)),
         Step("clear", Timer(d, m, 7, 45, 0, 15, once)),
         Step("clear", Timer(d, m, 9, 0, 2, 0, 1)),
         Step("clear", Timer(d, m, 7, 0, 1, 30, 1)),
         Step("clear", Timer(d, m, 8, 0, 0, 30, 1)),
         Step("clear", Timer(d, m, 9, 30, 0, 30, 1)),
         Step("clear", Timer(d, m, 6, 0, 6, 0, 1)) >>


\* what comes back for a timer message: msg[2] of a Timer Status or of a
\* Timer Cleared Status is kept in op2
StatusBytes == {0, 1, 2, 3, 14, 24, 128, 129, 142, 152}

TimerReplies ==
  {[tx_ok |-> FALSE, status |-> "none", op2 |-> 0]}
    \cup {[tx_ok |-> TRUE, status |-> s, op2 |-> 0] :
            s \in {"timed_out", "abort_unrecognized", "abort_refused",
                   "abort_invalid_op"}}
    \cup {[tx_ok |-> TRUE, status |-> "ok", op2 |-> b] : b \in StatusBytes}

\* the values of node->current_time the subtests are started with
Years == {1899, 1900, 1999, 2000, 2023, 2024, 2099, 2100, 2299, 2300, 2399, 2400}

\* a day in January, the last hours of 28 February, of 1 March and of the year
Times ==
  {[year |-> y, mon |-> d[1], mday |-> d[2], hour |-> d[3], min |-> 30] :
     y \in Years,
     d \in {<< Jan, 15, 10 >>, << Feb, 28, 23 >>, << 3, 1, 23 >>,
            << Dec, 31, 23 >>}}

\* the interval of a timer within its day, in minutes
StartOf(t) == t.start_hr * 60 + t.start_min

EndOf(t) == StartOf(t) + t.dur_hr * 60 + t.dur_min

\* the overlap rule for two timers of the same day
Overlaps(a, b) ==
  /\ a.day = b.day
  /\ a.month = b.month
  /\ StartOf(a) < EndOf(b)
  /\ StartOf(b) < EndOf(a)

steps ==
  IF test_fn = "timer_errors"
  THEN timer_errors_steps(current_time)
  ELSE timer_overlap_warning_steps(current_time)

\* the message the subtest sends next
cur == steps[idx + 1]

\* the reply passed the checks: the next message, or return OK after the last
Passed ==
  /\ idx' = idx + 1
  /\ IF idx + 1 = Len(steps) THEN Return(OK, FALSE) ELSE Goto("script", FALSE)

\* a check failed: return r
Failed(r) ==
  /\ idx' = idx
  /\ Return(r, TRUE)

\* testRemote calls a timer subtest at some date and time
StartTimerSubtest ==
  /\ pc = "unit"
  /\ \E f \in {"timer_errors", "timer_overlap_warning"}, now \in Times :
       /\ test_fn' = f
       /\ current_time' = now
  /\ la' = 1
  /\ pc' = "running"
  /\ step' = "script"
  /\ UNCHANGED << configVars, nodeVars, auxVars, passVars, tableVars, trackVars,
                  collectVars, fret, sent, detected, msg, idx, replies,
                  deckVars, tunerVars, timers >>

\* fail_on_test(send_timer_error(...))
Timer_Error ==
  /\ pc = "running" /\ step = "script" /\ cur.op = "error"
  /\ test_fn = "timer_errors"
  /\ \E m \in TimerReplies :
       /\ msg' = m
       /\ IF HelperFailed(send_timer_error(m)) THEN Failed(FAIL) ELSE Passed
  /\ sent' = sent + 1
  /\ UNCHANGED << engineVars, auxVars, pc, test_fn, replies, deckVars, tunerVars,
                  timerVars >>

\* timer_errors sets the timer it will submit twice
TimerErrors_Set ==
  /\ pc = "running" /\ step = "script" /\ cur.op = "set"
  /\ test_fn = "timer_errors"
  /\ \E m \in TimerReplies :
       /\ msg' = m
       /\ IF ~m.tx_ok \/ timed_out_or_abort(m) \/ timer_has_error(m)
          THEN Failed(FAIL) /\ UNCHANGED timers
          ELSE Passed /\ timers' = timers \cup {cur.t}
  /\ sent' = sent + 1
  /\ UNCHANGED << engineVars, auxVars, pc, test_fn, replies, deckVars, tunerVars,
                  current_time >>

\* timer_overlap_warning sets its first timer
TimerOverlap_First ==
  /\ pc = "running" /\ step = "script" /\ cur.op = "first"
  /\ test_fn = "timer_overlap_warning"
  /\ \E m \in TimerReplies :
       /\ msg' = m
       /\ IF ~m.tx_ok
          THEN Failed(FAIL) /\ UNCHANGED timers
          ELSE IF is_unrecognized_op(m)
          THEN /\ idx' = idx
               /\ Return(OK_NOT_SUPPORTED, FALSE)
               /\ UNCHANGED timers
          ELSE IF \/ timed_out_or_abort(m)
                  \/ timer_has_error(m)
                  \/ timer_overlap_warning_is_set(m)
          THEN Failed(FAIL) /\ UNCHANGED timers
          ELSE Passed /\ timers' = timers \cup {cur.t}
  /\ sent' = sent + 1
  /\ UNCHANGED << engineVars, auxVars, pc, test_fn, replies, deckVars, tunerVars,
                  current_time >>

\* timer_overlap_warning sets a timer that touches the first one
TimerOverlap_Adjacent ==
  /\ pc = "running" /\ step = "script" /\ cur.op = "adjacent"
  /\ test_fn = "timer_overlap_warning"
  /\ \E m \in TimerReplies :
       /\ msg' = m
       /\ IF \/ ~m.tx_ok
             \/ timed_out_or_abort(m)
             \/ timer_has_error(m)
             \/ timer_overlap_warning_is_set(m)
          THEN Failed(FAIL) /\ UNCHANGED timers
          ELSE Passed /\ timers' = timers \cup {cur.t}
  /\ sent' = sent + 1
  /\ UNCHANGED << engineVars, auxVars, pc, test_fn, replies, deckVars, tunerVars,
                  current_time >>

\* fail_on_test(send_timer_overlap(...))
Timer_Overlap ==
  /\ pc = "running" /\ step = "script" /\ cur.op = "overlap"
  /\ test_fn = "timer_overlap_warning"
  /\ \E m \in TimerReplies :
       /\ msg' = m
       /\ IF HelperFailed(send_timer_overlap(m))
          THEN Failed(FAIL) /\ UNCHANGED timers
          ELSE Passed /\ timers' = timers \cup {cur.t}
  /\ sent' = sent + 1
  /\ UNCHANGED << engineVars, auxVars, pc, test_fn, replies, deckVars, tunerVars,
                  current_time >>

\* fail_on_test(clear_timer(...))
Timer_Clear ==
  /\ pc = "running" /\ step = "script" /\ cur.op = "clear"
  /\ test_fn \in {"timer_errors", "timer_overlap_warning"}
  /\ \E m \in TimerReplies :
       /\ msg' = m
       /\ IF HelperFailed(clear_timer(m))
          THEN Failed(FAIL) /\ UNCHANGED timers
          ELSE Passed /\ timers' = timers \ {cur.t}
  /\ sent' = sent + 1
  /\ UNCHANGED << engineVars, auxVars, pc, test_fn, replies, deckVars, tunerVars,
                  current_time >>

InitTimers ==
  /\ InitCommon
  /\ InitUnit
  /\ pc = "unit"
  /\ cat = << >>
  /\ cec_version = CEC_OP_CEC_VERSION_2_0
  /\ has_cec20 = TRUE

NextTimers ==
  \/ StartTimerSubtest
  \/ Timer_Error
  \/ TimerErrors_Set
  \/ TimerOverlap_First
  \/ TimerOverlap_Adjacent
  \/ Timer_Overlap
  \/ Timer_Clear

SpecTimers == InitTimers /\ [][NextTimers]_vars


(***************************************************************************)
(* cdc_hec_discover.  Time is counted in milliseconds from ts_start.  A    *)
(* frame takes a while to arrive; CEC_RECEIVE gives up after msg.timeout.  *)
(***************************************************************************)
MaxWaitMs == 5000
ReceiveTimeoutMs == 1000

\* how long CEC_RECEIVE blocks before it delivers a frame
Delays == {250, 500, 750}

\* what CEC_RECEIVE delivers: the opcode, whether the initiator is la, the
\* CDC opcode, whether the report is for this node, and whether it comes
\* from the physical address of the remote
Frame(opcode, from_la, cdc_opcode, for_us, of_remote) ==
  [opcode |-> opcode, from_la |-> from_la, cdc_opcode |-> cdc_opcode,
   for_us |-> for_us, of_remote |-> of_remote]

Frames ==
  {Frame("FEATURE_ABORT", b, "OTHER", FALSE, FALSE) : b \in BOOLEAN}
    \cup {Frame("OTHER", TRUE, "OTHER", FALSE, FALSE),
          Frame("CDC_MESSAGE", TRUE, "OTHER", TRUE, TRUE),
          Frame("CDC_MESSAGE", TRUE, "CDC_HEC_REPORT_STATE", FALSE, TRUE),
          Frame("CDC_MESSAGE", FALSE, "CDC_HEC_REPORT_STATE", TRUE, FALSE),
          Frame("CDC_MESSAGE", TRUE, "CDC_HEC_REPORT_STATE", TRUE, TRUE)}

\* msg after a CEC_RECEIVE that delivered nothing
NoFrame ==
  [opcode |-> "NONE", from_la |-> FALSE, cdc_opcode |-> "OTHER",
   for_us |-> FALSE, of_remote |-> FALSE]

\* the frame is a HEC state report for this node
IsReport(f) ==
  /\ f.opcode = "CDC_MESSAGE"
  /\ f.cdc_opcode = "CDC_HEC_REPORT_STATE"
  /\ f.for_us

\* the loop is left: the adapter is set back to CEC_MODE_INITIATOR, then
\* return 0 if the remote has reported, else not supported
DiscoverDone(cdc) ==
  /\ Return(IF cdc THEN 0 ELSE OK_NOT_SUPPORTED, FALSE)
  /\ mode' = CEC_MODE_INITIATOR

\* a Feature Abort of the remote is passed over like any other frame
AbortEndsWait_Never(f, l) == FALSE

\* return fail("Device replied Feature Abort to broadcast message\n")
AbortEndsWait(f, l) == f.opcode = "FEATURE_ABORT" /\ f.from_la

\* testRemote calls cdc_hec_discover
StartDiscover ==
  /\ pc = "unit"
  /\ \E l \in RemoteLAs : la' = l
  /\ test_fn' = "cdc_hec_discover"
  /\ pc' = "running"
  /\ step' = "start"
  /\ UNCHANGED << configVars, nodeVars, auxVars, passVars, tableVars,
                  trackVars, collectVars, fret, sent, detected, msg, idx,
                  replies, deckVars, tunerVars, timerVars >>

\* the adapter is set to initiator and follower, the discover message is
\* broadcast and ts_start is taken
Discover_Transmit ==
  /\ pc = "running" /\ test_fn = "cdc_hec_discover" /\ step = "start"
  /\ mode' = CEC_MODE_INITIATOR_FOLLOWER
  /\ \E ok \in BOOLEAN :
       IF ~ok
       THEN Return(FAIL, TRUE) /\ UNCHANGED sent
       ELSE Goto("loop", FALSE) /\ sent' = sent + 1
  /\ elapsed' = 0
  /\ has_cdc' = FALSE
  /\ UNCHANGED << has_remote_control_passthrough, call,
                  engineVars, has_osd, twiceVars, remoteVars, pc, test_fn, msg, idx, replies,
                  deckVars, tunerVars, timerVars >>

\* one turn of the loop, entered with elapsed < 5000: CEC_RECEIVE fails at
\* once, times out, or delivers a frame, which is then looked at
Discover_Receive ==
  /\ pc = "running" /\ test_fn = "cdc_hec_discover" /\ step = "loop"
  /\ elapsed < MaxWaitMs
  /\ \/ \E d \in {0, ReceiveTimeoutMs} :
          /\ elapsed' = elapsed + d
          /\ msg' = NoFrame
          /\ DiscoverDone(has_cdc)
          /\ UNCHANGED << idx, has_cdc >>
     \/ \E d \in Delays, f \in Frames :
          /\ elapsed' = elapsed + d
          /\ msg' = f
          /\ idx' = idx + 1
          /\ has_cdc' = (has_cdc \/ (IsReport(f) /\ f.of_remote))
          /\ IF AbortEndsWait(f, la)
             THEN Return(FAIL, TRUE) /\ UNCHANGED mode
             ELSE IF elapsed' < MaxWaitMs
                  THEN Goto("loop", FALSE) /\ UNCHANGED mode
                  ELSE DiscoverDone(has_cdc')
  /\ UNCHANGED << has_remote_control_passthrough, call,
                  engineVars, has_osd, twiceVars, remoteVars, pc, test_fn, sent, replies, deckVars,
                  tunerVars, timerVars >>

InitDiscover ==
  /\ InitCommon
  /\ InitUnit
  /\ pc = "unit"
  /\ cat = << >>
  /\ cec_version = CEC_OP_CEC_VERSION_2_0
  /\ has_cec20 = TRUE

NextDiscover ==
  \/ StartDiscover
  \/ Discover_Transmit
  \/ Discover_Receive

SpecDiscover == InitDiscover /\ [][NextDiscover]_vars


(***************************************************************************)
(* testRemote called twice for the same remote, with the same tags and the *)
(* same expectations.  The Node is not reset in between.  The remote       *)
(* answers a subtest of the second pass as it answered it in the first.    *)
(***************************************************************************)
TwiceTagSelections ==
  { {"TAG_CORE"}, {"TAG_OSD_DISPLAY"},
    {"TAG_POWER_STATUS", "TAG_STANDBY_RESUME"} }

\* if (!node->remote[la].has_osd) return NOTAPPLICABLE;
NotApplicable(fn, osd) ==
  fn \in {"osd_string_set_until_clear", "osd_string_invalid"} /\ ~osd

\* what a subtest that is carried out can come to: its return value, whether
\* it warned, how the reply to the unknown opcode was classified, and
\* whether it reached node->remote[la].has_osd = true
Answers(fn, rec, unrec, l) ==
  {a \in [r : IF fn \in DOMAIN SubtestReturns \cup {"post_test_check_recognized"}
              THEN Returns(fn, rec, unrec, l) \ {NOTAPPLICABLE}
              ELSE {OK, FAIL},
          w : IF fn \in DOMAIN SubtestReturns THEN {0, 1} ELSE {0},
          mark : SubtestMarks(fn),
          sets_osd : BOOLEAN] :
     IF fn = "osd_string_set_default"
     THEN /\ a.r \in {OK, OK_PRESUMED} => a.sets_osd
          /\ a.r \in {OK_NOT_SUPPORTED, OK_REFUSED} => ~a.sets_osd
     ELSE ~a.sets_osd}

\* CEC_ADAP_G_LOG_ADDRS for the entry e: the adapter gives what it gave for
\* it before
MaskReadsTwice(subtest, e, ver, has20, last, given) ==
  IF e \in DOMAIN given THEN {given[e]}
  ELSE MaskReads(subtest, ver, has20, last)

\* the adapter was asked: the mask it gave is kept
AdapterAsked(subtest, e, m) ==
  adapter' = IF subtest.in_standby /\ ~Cec20Unmet(subtest, cec_version, has_cec20)
                /\ e \notin DOMAIN adapter
             THEN adapter @@ (e :> m)
             ELSE adapter

\* one iteration of the inner loop that ends in a continue
SkipSubtestTwice ==
  /\ pc = "subtest"
  /\ LET subtest == SubtestAt(gi, si)
         e == EntryAt(gi, si)
     IN  \E m \in MaskReadsTwice(subtest, e, cec_version, has_cec20,
                                 log_addr_mask, adapter) :
           /\ Skips(subtest, cec_version, has_cec20, m, la)
           /\ log_addr_mask' = m
           /\ AdapterAsked(subtest, e, m)
  /\ skipped' = Append(skipped, EntryAt(gi, si))
  /\ Advance
  /\ UNCHANGED << mode, has_remote_control_passthrough, call,
                  configVars, nodeVars, la, test_tags, ret, raw,
                  has_warnings, warnings, in_standby, invoked, groups_run, report,
                  tableVars, trackVars, collectVars, stepVars, deckVars,
                  tunerVars, timerVars, elapsed, has_cdc, has_osd, remoteVars, pass,
                  answers, lines, first_pass >>

\* the subtest returns before it sends anything
Quiet == [r |-> NOTAPPLICABLE, w |-> 0, mark |-> "none", sets_osd |-> FALSE]

\* one iteration of the inner loop that calls the subtest
InvokeSubtestTwice ==
  /\ pc = "subtest"
  /\ LET subtest == SubtestAt(gi, si)
         key == safename(subtest.name)
         e == EntryAt(gi, si)
         fn == subtest.test_fn
         all == Answers(fn, recognized_op, unrecognized_op, la)
     IN  /\ \E m \in MaskReadsTwice(subtest, e, cec_version, has_cec20,
                                     log_addr_mask, adapter) :
              /\ ~Skips(subtest, cec_version, has_cec20, m, la)
              /\ log_addr_mask' = m
              /\ AdapterAsked(subtest, e, m)
         /\ in_standby' = subtest.in_standby
         /\ \E a \in (IF NotApplicable(fn, has_osd[la]) THEN {Quiet}
                      ELSE IF fn = "post_test_check_recognized" THEN all
                      ELSE IF e \in DOMAIN answers THEN {answers[e]}
                      ELSE all) :
              /\ answers' = IF a = Quiet \/ e \in DOMAIN answers
                                \/ fn = "post_test_check_recognized"
                            THEN answers
                            ELSE answers @@ (e :> a)
              /\ raw' = a.r
              /\ warnings' = warnings + a.w
              /\ has_warnings' = HasWarnings(warnings, warnings')
              /\ has_osd' = [has_osd EXCEPT ![la] = @ \/ a.sets_osd]
              /\ recognized_op' =
                   IF a.mark = "recognized"
                   THEN MarkRecognized(recognized_op, la, unknown_opcode)
                   ELSE recognized_op
              /\ unrecognized_op' =
                   IF a.mark = "unrecognized"
                   THEN MarkUnrecognized(unrecognized_op, la, unknown_opcode)
                   ELSE unrecognized_op
              /\ ret' = Escalate(subtest, la, a.r)
         /\ report' = PrintResult(subtest.name, ret', has_warnings', mapTests,
                                  mapTestsNoWarnings)
         /\ mapTests' = MapTouch(mapTests, key, 0)
         /\ mapTestsNoWarnings' =
              IF MapGet(mapTests, key, 0) # DONT_CARE
                 /\ ret' = MapGet(mapTests, key, 0) /\ has_warnings'
              THEN MapTouch(mapTestsNoWarnings, key, FALSE)
              ELSE mapTestsNoWarnings
         /\ invoked' = Append(invoked, e)
         /\ lines' = Append(lines, [entry |-> e, ret |-> ret', report |-> report'])
         /\ IF StopsRun(ret')
            THEN /\ pc' = "done"
                 /\ UNCHANGED << gi, si >>
            ELSE Advance
  /\ UNCHANGED << mode, has_remote_control_passthrough, call,
                  nexpect, opt_arg, opt_ret, nodeVars, la, test_tags, skipped, groups_run,
                  trackVars, collectVars, stepVars, deckVars, tunerVars,
                  timerVars, elapsed, has_cdc, remoteVars, pass, first_pass >>

\* testRemote has returned and is called again with the same arguments
SecondPass ==
  /\ pc = "done"
  /\ pass = 1
  /\ pass' = 2
  /\ first_pass' = [invoked |-> invoked, skipped |-> skipped,
                    groups_run |-> groups_run, lines |-> lines]
  /\ invoked' = << >>
  /\ skipped' = << >>
  /\ groups_run' = << >>
  /\ lines' = << >>
  /\ ret' = 0
  /\ gi' = 1
  /\ pc' = "group"
  /\ UNCHANGED << mode, has_remote_control_passthrough, call,
                  configVars, nodeVars, la, test_tags, log_addr_mask, si, raw,
                  has_warnings, warnings, in_standby, report, tableVars,
                  trackVars, collectVars, stepVars, deckVars, tunerVars,
                  timerVars, elapsed, has_cdc, has_osd, remoteVars, answers, adapter >>

InitTwice ==
  /\ InitCommon
  /\ InitUnit
  /\ pc = "start"
  /\ cat = << >>
  /\ cec_version \in {CEC_OP_CEC_VERSION_1_4, CEC_OP_CEC_VERSION_2_0}
  /\ has_cec20 = TRUE

NextTwice ==
  \/ CollectTestsRun
  \/ StartWith(TwiceTagSelections)
  \/ EnterGroup
  \/ SkipSubtestTwice
  \/ InvokeSubtestTwice
  \/ SecondPass

SpecTwice == InitTwice /\ [][NextTwice]_vars


(***************************************************************************)
(* The subtests that put one question to the remote and sort its reply:    *)
(* Give Device Vendor ID, Give OSD Name, Get Menu Language, Menu Request,  *)
(* the six Set and Clear Timer messages, and Record On.                    *)
(***************************************************************************)
TimerQueries ==
  {"timer_prog_set_analog_timer", "timer_prog_set_digital_timer",
   "timer_prog_set_ext_timer", "timer_prog_clear_analog_timer",
   "timer_prog_clear_digital_timer", "timer_prog_clear_ext_timer"}

QuerySubtests ==
  {"vendor_specific_commands_id", "device_osd_transfer_give",
   "system_info_get_menu_lang", "dev_menu_ctl_request", "one_touch_rec_on"}
    \cup TimerQueries

PrimTypes == {"TV", "RECORD", "TUNER"}

\* is_tv(la, prim_type); the address Specific is not among RemoteLAs
is_tv(l, prim) == l \in CEC_LOG_ADDR_MASK_TV

\* testRemote calls one of the subtests
StartQuery ==
  /\ pc = "unit"
  /\ \E f \in QuerySubtests, l \in RemoteLAs, sb \in BOOLEAN, prim \in PrimTypes :
       /\ test_fn' = f
       /\ la' = l
       /\ in_standby' = sb
       /\ prim_type' = prim
  /\ pc' = "running"
  /\ step' = "start"
  /\ UNCHANGED << mode, has_remote_control_passthrough, call,
                  configVars, nodeVars, elapsed, has_cdc, has_osd, twiceVars,
                  remote_la_mask, phys_addr, test_tags, log_addr_mask, gi, si, ret, raw, has_warnings,
                  warnings, invoked, skipped, groups_run, report, tableVars,
                  trackVars, collectVars, fret, sent, detected, msg, idx,
                  replies, deckVars, tunerVars, timerVars >>

\* the question was not answered in a way the subtest goes on with:
\* "none" when it goes on, else "fail_or_warn" or "fail"
QueryUnanswered(fn, m) ==
  IF fn = "vendor_specific_commands_id"
  THEN IF ~m.tx_ok THEN "fail_or_warn" ELSE "none"
  ELSE IF fn \in {"device_osd_transfer_give", "system_info_get_menu_lang"}
       THEN IF ~m.tx_ok \/ timed_out(m) THEN "fail_or_warn" ELSE "none"
       ELSE IF fn = "dev_menu_ctl_request"
            THEN IF ~m.tx_ok THEN "fail" ELSE "none"
            ELSE IF ~m.tx_ok \/ timed_out(m) THEN "fail" ELSE "none"

\* the question is sent and the reply, if any, is in msg
Query_Transmit ==
  /\ pc = "running" /\ test_fn \in QuerySubtests /\ step = "start"
  /\ \E m \in Replies :
       /\ msg' = m
       /\ LET u == QueryUnanswered(test_fn, m)
          IN  IF u = "fail_or_warn"
              THEN Return(fail_or_warn(in_standby), ~in_standby)
              ELSE IF u = "fail"
                   THEN Return(FAIL, TRUE)
                   ELSE Goto("triage", FALSE)
  /\ sent' = sent + 1
  /\ UNCHANGED << engineVars, auxVars, pc, test_fn, idx, replies, deckVars,
                  tunerVars, timerVars >>

\* the fail_on_test that precedes "if (unrecognized_op(&msg))"
FailsBeforeTriage(fn, m, l, prim) ==
  \/ fn = "device_osd_transfer_give" /\ ~is_tv(l, prim) /\ is_unrecognized_op(m)
  \/ fn = "system_info_get_menu_lang" /\ ~is_tv(l, prim) /\ ~is_unrecognized_op(m)

\* the fail_on_test inside "if (unrecognized_op(&msg)) { ... }"
FailsWhenUnrecognized(fn, prim) == fn = "one_touch_rec_on" /\ prim = "RECORD"

\* if (unrecognized_op) ...; if (refused) ...; if (cec_msg_status_is_abort) ...
AbortTriage_AbortFirst(m) ==
  IF cec_msg_status_is_abort(m) THEN OK_PRESUMED
  ELSE IF refused(m) THEN OK_REFUSED
       ELSE OK_NOT_SUPPORTED

AbortTriage(m) ==
  IF is_unrecognized_op(m) THEN OK_NOT_SUPPORTED
  ELSE IF refused(m) THEN OK_REFUSED
       ELSE OK_PRESUMED

\* the three checks on a Feature Abort, in the order of the code
Query_Triage ==
  /\ pc = "running" /\ test_fn \in QuerySubtests /\ step = "triage"
  /\ IF FailsBeforeTriage(test_fn, msg, la, prim_type)
     THEN Return(FAIL, TRUE)
     ELSE IF cec_msg_status_is_abort(msg)
          THEN IF is_unrecognized_op(msg) /\ FailsWhenUnrecognized(test_fn, prim_type)
               THEN Return(FAIL, TRUE)
               ELSE Return(AbortTriage(msg), FALSE)
          ELSE Goto("content", FALSE)
  /\ UNCHANGED << engineVars, auxVars, pc, test_fn, sent, msg, idx, replies,
                  deckVars, tunerVars, timerVars >>

\* the checks on what the reply holds; Menu Request has none, and Record On
\* goes on with further recordings that are summed up here
Query_Content ==
  /\ pc = "running" /\ test_fn \in QuerySubtests /\ step = "content"
  /\ \E good \in BOOLEAN :
       IF good \/ test_fn = "dev_menu_ctl_request"
       THEN Return(0, FALSE)
       ELSE Return(FAIL, TRUE)
  /\ UNCHANGED << engineVars, auxVars, pc, test_fn, sent, msg, idx, replies,
                  deckVars, tunerVars, timerVars >>

\* what polling an address got: whether the ioctl worked and whether the
\* poll was acknowledged
Polls ==
  {[tx_ok |-> FALSE, status |-> "none"], [tx_ok |-> TRUE, status |-> "ok"],
   [tx_ok |-> TRUE, status |-> "nack"]}

cec_msg_status_is_ok(m) == m.status = "ok"

system_info_polling_NackTolerated(m, in_mask) ==
  IF ~m.tx_ok THEN FAIL
  ELSE IF in_mask
       THEN IF ~cec_msg_status_is_ok(m) THEN FAIL ELSE 0
       ELSE IF cec_msg_status_is_ok(m) THEN FAIL_CRITICAL ELSE OK_NOT_SUPPORTED

\* the return value for the poll m of an address that is, or is not, in
\* node->remote_la_mask
system_info_polling(m, in_mask) ==
  IF ~m.tx_ok THEN FAIL
  ELSE IF in_mask
       THEN IF ~cec_msg_status_is_ok(m) THEN FAIL_CRITICAL ELSE 0
       ELSE IF cec_msg_status_is_ok(m) THEN FAIL_CRITICAL ELSE OK_NOT_SUPPORTED

\* testRemote calls system_info_polling for the address la
StartPolling ==
  /\ pc = "unit"
  /\ \E l \in RemoteLAs, mask \in SUBSET RemoteLAs :
       /\ la' = l
       /\ remote_la_mask' = mask
  /\ test_fn' = "system_info_polling"
  /\ pc' = "running"
  /\ step' = "start"
  /\ UNCHANGED << mode, has_remote_control_passthrough, call,
                  configVars, nodeVars, elapsed, has_cdc, has_osd, twiceVars,
                  prim_type, phys_addr, test_tags, log_addr_mask, gi, si, ret, raw,
                  has_warnings, warnings, in_standby, invoked, skipped,
                  groups_run, report, tableVars, trackVars, collectVars, fret,
                  sent, detected, msg, idx, replies, deckVars, tunerVars,
                  timerVars >>

\* the poll is handed to CEC_TRANSMIT and its status is looked at
Polling_Transmit ==
  /\ pc = "running" /\ test_fn = "system_info_polling" /\ step = "start"
  /\ \E m \in Polls :
       /\ msg' = m
       /\ sent' = IF m.tx_ok THEN sent + 1 ELSE sent
       /\ LET r == system_info_polling(m, la \in remote_la_mask)
          IN  Return(r, r \in {FAIL, FAIL_CRITICAL})
  /\ UNCHANGED << engineVars, auxVars, pc, test_fn, idx, replies, deckVars,
                  tunerVars, timerVars >>

\* the physical addresses a device can hold or report
PhysAddrs == {"1.0.0.0", "2.0.0.0"}

\* what comes back for Give Physical Address: nothing, a Feature Abort, or
\* Report Physical Address with an address and a primary device type
PhysAddrReplies ==
  [tx_ok : {FALSE}, status : {"none"}, pa : {"none"}, prim : {"none"}]
    \cup [tx_ok : {TRUE}, status : {"timed_out", "abort_unrecognized", "abort_refused"},
          pa : {"none"}, prim : {"none"}]
    \cup [tx_ok : {TRUE}, status : {"ok"}, pa : PhysAddrs, prim : PrimTypes]

system_info_phys_addr_StandbyIgnored(m, standby, pa, prim) ==
  IF ~m.tx_ok \/ timed_out_or_abort(m)
  THEN FAIL_CRITICAL
  ELSE IF pa # m.pa \/ prim # m.prim THEN FAIL ELSE 0

\* the return value for the reply m, with node->in_standby and the address
\* and primary device type stored for the remote
system_info_phys_addr(m, standby, pa, prim) ==
  IF ~m.tx_ok \/ timed_out_or_abort(m)
  THEN IF standby THEN 0 ELSE FAIL_CRITICAL
  ELSE IF pa # m.pa \/ prim # m.prim THEN FAIL ELSE 0

\* testRemote sets node->in_standby and calls system_info_phys_addr
StartPhysAddr ==
  /\ pc = "unit"
  /\ \E l \in RemoteLAs, sb \in BOOLEAN, pa \in PhysAddrs, prim \in PrimTypes :
       /\ la' = l
       /\ in_standby' = sb
       /\ phys_addr' = pa
       /\ prim_type' = prim
  /\ test_fn' = "system_info_phys_addr"
  /\ pc' = "running"
  /\ step' = "start"
  /\ UNCHANGED << mode, has_remote_control_passthrough, call,
                  configVars, nodeVars, elapsed, has_cdc, has_osd, twiceVars,
                  remote_la_mask, test_tags, log_addr_mask, gi, si, ret, raw,
                  has_warnings, warnings, invoked, skipped, groups_run, report,
                  tableVars, trackVars, collectVars, fret, sent, detected, msg,
                  idx, replies, deckVars, tunerVars, timerVars >>

\* Give Physical Address is sent and the reply is compared
PhysAddr_Transmit ==
  /\ pc = "running" /\ test_fn = "system_info_phys_addr" /\ step = "start"
  /\ \E m \in PhysAddrReplies :
       /\ msg' = m
       /\ sent' = IF m.tx_ok THEN sent + 1 ELSE sent
       /\ LET r == system_info_phys_addr(m, in_standby, phys_addr, prim_type)
          IN  Return(r, r \in {FAIL, FAIL_CRITICAL})
  /\ UNCHANGED << engineVars, auxVars, pc, test_fn, idx, replies, deckVars,
                  tunerVars, timerVars >>

InitQuery ==
  /\ InitCommon
  /\ InitUnit
  /\ pc = "unit"
  /\ cat = << >>
  /\ cec_version \in {CEC_OP_CEC_VERSION_1_4, CEC_OP_CEC_VERSION_2_0}
  /\ has_cec20 = TRUE

NextQuery ==
  \/ StartQuery
  \/ Query_Transmit
  \/ Query_Triage
  \/ Query_Content
  \/ StartPolling
  \/ Polling_Transmit
  \/ StartPhysAddr
  \/ PhysAddr_Transmit

SpecQuery == InitQuery /\ [][NextQuery]_vars


(***************************************************************************)
(* transmit_timeout: a message that expects a reply is sent and the reply  *)
(* is waited for.  msg.rx_status is the set of the status bits that are    *)
(* set when the call is over.                                              *)
(***************************************************************************)
ReplyTimeouts == {ReceiveTimeoutMs, 2 * ReceiveTimeoutMs}

AbortReasons == {"unrecognized", "refused", "invalid_op"}

\* what arrives while the reply is waited for
BusFrames ==
  [from_dest : BOOLEAN, kind : {"reply", "other"}, reason : {"none"}]
    \cup [from_dest : BOOLEAN, kind : {"abort"}, reason : AbortReasons]

Request(t) ==
  [tx_ok |-> FALSE, timeout |-> t, rx_status |-> {}, reason |-> "none",
   from_dest |-> FALSE, kind |-> "none"]

\* the frame ends the wait: any frame would
EndsTransaction_AnySource(f) == f.kind \in {"reply", "abort"}

\* the frame ends the wait: the reply or a Feature Abort, from the destination
EndsTransaction(f) == f.from_dest /\ f.kind \in {"reply", "abort"}

\* timed_out, cec_msg_status_is_abort and abort_reason for rx_status
rx_timed_out(m) == "TIMEOUT" \in m.rx_status

rx_is_abort(m) == "FEATURE_ABORT" \in m.rx_status

rx_is_reply(m) == "OK" \in m.rx_status /\ ~rx_is_abort(m)

\* a subtest calls transmit_timeout
StartTransaction ==
  /\ pc = "unit"
  /\ \E l \in RemoteLAs, t \in ReplyTimeouts :
       /\ la' = l
       /\ msg' = Request(t)
  /\ test_fn' = "transmit_timeout"
  /\ pc' = "running"
  /\ step' = "start"
  /\ UNCHANGED << configVars, nodeVars, auxVars, test_tags, log_addr_mask, gi,
                  si, ret, raw, has_warnings, warnings, in_standby, invoked,
                  skipped, groups_run, report, tableVars, trackVars,
                  collectVars, fret, sent, detected, idx, replies, deckVars,
                  tunerVars, timerVars >>

\* the message is handed to the bus
Transaction_Send ==
  /\ pc = "running" /\ test_fn = "transmit_timeout" /\ step = "start"
  /\ \E ok \in BOOLEAN :
       /\ msg' = [msg EXCEPT !.tx_ok = ok]
       /\ IF ok
          THEN Goto("wait", FALSE) /\ sent' = sent + 1
          ELSE Return(FAIL, FALSE) /\ UNCHANGED sent
  /\ elapsed' = 0
  /\ UNCHANGED << mode, has_remote_control_passthrough, call,
                  engineVars, has_cdc, has_osd, twiceVars, remoteVars, pc,
                  test_fn, idx, replies, deckVars, tunerVars, timerVars >>

\* a frame arrives before the timeout, or the timeout passes
Transaction_Wait ==
  /\ pc = "running" /\ test_fn = "transmit_timeout" /\ step = "wait"
  /\ \/ \E f \in BusFrames, d \in Delays :
          /\ elapsed + d < msg.timeout
          /\ elapsed' = elapsed + d
          /\ IF EndsTransaction(f)
             THEN /\ msg' = [msg EXCEPT
                               !.rx_status = IF f.kind = "abort"
                                             THEN {"OK", "FEATURE_ABORT"}
                                             ELSE {"OK"},
                               !.reason = f.reason,
                               !.from_dest = f.from_dest,
                               !.kind = f.kind]
                  /\ Return(0, FALSE)
             ELSE /\ UNCHANGED msg
                  /\ Goto("wait", FALSE)
     \/ /\ elapsed' = msg.timeout
        /\ msg' = [msg EXCEPT !.rx_status = {"TIMEOUT"}]
        /\ Return(0, FALSE)
  /\ UNCHANGED << mode, has_remote_control_passthrough, call,
                  engineVars, has_cdc, has_osd, twiceVars, remoteVars, pc,
                  test_fn, sent, idx, replies, deckVars, tunerVars, timerVars >>

InitTransaction ==
  /\ InitCommon
  /\ InitUnit
  /\ pc = "unit"
  /\ cat = << >>
  /\ cec_version \in {CEC_OP_CEC_VERSION_1_4, CEC_OP_CEC_VERSION_2_0}
  /\ has_cec20 = TRUE

NextTransaction ==
  \/ StartTransaction
  \/ Transaction_Send
  \/ Transaction_Wait

SpecTransaction == InitTransaction /\ [][NextTransaction]_vars


(***************************************************************************)
(* The OSD Display subtests.  They are called one after another, for any   *)
(* remote address, and node->remote[la].has_osd lasts from one call to     *)
(* the next.                                                               *)
(***************************************************************************)
OsdSubtests ==
  {"osd_string_set_default", "osd_string_set_until_clear", "osd_string_invalid"}

\* testRemote calls one of the three subtests
StartOsd ==
  /\ pc = "unit"
  /\ \E f \in OsdSubtests, l \in RemoteLAs :
       /\ test_fn' = f
       /\ la' = l
  /\ pc' = "running"
  /\ step' = "start"
  /\ UNCHANGED << configVars, nodeVars, auxVars, test_tags, log_addr_mask, gi,
                  si, ret, raw, has_warnings, warnings, in_standby, invoked,
                  skipped, groups_run, report, tableVars, trackVars,
                  collectVars, fret, sent, detected, msg, idx, replies,
                  deckVars, tunerVars, timerVars >>

\* the subtest is over and testRemote goes on to the next one
OsdReturned ==
  /\ pc = "running" /\ test_fn \in OsdSubtests /\ step = "returned"
  /\ pc' = "unit"
  /\ step' = "none"
  /\ test_fn' = ""
  /\ fret' = 0
  /\ sent' = 0
  /\ detected' = FALSE
  /\ msg' = NoMsg
  /\ UNCHANGED << engineVars, auxVars, idx, replies, deckVars, tunerVars,
                  timerVars >>

\* the statement node->remote[la].has_osd = true is reached
SetsOsd_OnlyWhenDisplayed(m) == ~cec_msg_status_is_abort(m)

SetsOsd(m) == ~is_unrecognized_op(m) /\ ~refused(m)

\* osd_string_set_default
Osd_SetDefault ==
  /\ pc = "running" /\ test_fn = "osd_string_set_default" /\ step = "start"
  /\ \E m \in Replies, feat \in BOOLEAN, interactive \in BOOLEAN,
        answer \in BOOLEAN :
       /\ msg' = m
       /\ sent' = IF m.tx_ok THEN sent + 1 ELSE sent
       /\ IF ~m.tx_ok
          THEN Return(FAIL, TRUE) /\ UNCHANGED has_osd
          ELSE IF fail_on_test_v2(cec_version, is_unrecognized_op(m) /\ feat)
               THEN Return(FAIL, TRUE) /\ UNCHANGED has_osd
               ELSE IF ~SetsOsd(m)
                    THEN /\ Return(IF is_unrecognized_op(m)
                                   THEN OK_NOT_SUPPORTED ELSE OK_REFUSED, FALSE)
                         /\ UNCHANGED has_osd
                    ELSE /\ has_osd' = [has_osd EXCEPT ![la] = TRUE]
                         /\ IF ~interactive
                            THEN Return(OK_PRESUMED, FALSE)
                            ELSE IF ~cec_msg_status_is_abort(m) /\ ~answer
                                 THEN Return(FAIL, TRUE)
                                 ELSE Return(0, FALSE)
  /\ UNCHANGED << mode, has_remote_control_passthrough, call,
                  engineVars, elapsed, has_cdc, twiceVars, remoteVars, pc,
                  test_fn, idx, replies, deckVars, tunerVars, timerVars >>

\* if (!node->remote[la].has_osd) return NOTAPPLICABLE;
Osd_NotApplicable ==
  /\ pc = "running" /\ step = "start"
  /\ NotApplicable(test_fn, has_osd[la])
  /\ Return(NOTAPPLICABLE, FALSE)
  /\ UNCHANGED << engineVars, auxVars, pc, test_fn, sent, msg, idx, replies,
                  deckVars, tunerVars, timerVars >>

\* osd_string_set_until_clear: the string is sent for display
Osd_UntilClear_Show ==
  /\ pc = "running" /\ test_fn = "osd_string_set_until_clear" /\ step = "start"
  /\ has_osd[la]
  /\ \E m \in Replies :
       /\ msg' = m
       /\ sent' = IF m.tx_ok THEN sent + 1 ELSE sent
       /\ IF ~m.tx_ok
          THEN Return(FAIL, TRUE)
          ELSE Goto("clear", FALSE)
  /\ UNCHANGED << engineVars, auxVars, pc, test_fn, idx, replies, deckVars,
                  tunerVars, timerVars >>

\* osd_string_set_until_clear: the string is cleared; msg still holds the
\* reply to the first message when the second one is sent
Osd_UntilClear_Clear ==
  /\ pc = "running" /\ test_fn = "osd_string_set_until_clear" /\ step = "clear"
  /\ \E m \in Replies, interactive \in BOOLEAN, answer \in BOOLEAN :
       LET unsuitable == cec_msg_status_is_abort(msg) /\ ~is_unrecognized_op(msg)
       IN  /\ msg' = m
           /\ sent' = IF m.tx_ok THEN sent + 1 ELSE sent
           /\ IF ~m.tx_ok \/ cec_msg_status_is_abort(m)
                 \/ (~unsuitable /\ interactive /\ ~answer)
              THEN Return(FAIL, TRUE)
              ELSE Return(IF interactive THEN 0 ELSE OK_PRESUMED, FALSE)
  /\ UNCHANGED << engineVars, auxVars, pc, test_fn, idx, replies, deckVars,
                  tunerVars, timerVars >>

\* osd_string_invalid
Osd_Invalid ==
  /\ pc = "running" /\ test_fn = "osd_string_invalid" /\ step = "start"
  /\ has_osd[la]
  /\ \E m \in Replies, interactive \in BOOLEAN, answer \in BOOLEAN :
       /\ msg' = m
       /\ sent' = IF m.tx_ok THEN sent + 1 ELSE sent
       /\ IF ~m.tx_ok \/ timed_out(m) \/ ~cec_msg_status_is_abort(m)
             \/ (interactive /\ answer)
          THEN Return(FAIL, TRUE)
          ELSE Return(0, FALSE)
  /\ UNCHANGED << engineVars, auxVars, pc, test_fn, idx, replies, deckVars,
                  tunerVars, timerVars >>

InitOsd ==
  /\ InitCommon
  /\ InitUnit
  /\ pc = "unit"
  /\ cat = << >>
  /\ cec_version \in {CEC_OP_CEC_VERSION_1_4, CEC_OP_CEC_VERSION_2_0}
  /\ has_cec20 = TRUE

NextOsd ==
  \/ StartOsd
  \/ OsdReturned
  \/ Osd_SetDefault
  \/ Osd_NotApplicable
  \/ Osd_UntilClear_Show
  \/ Osd_UntilClear_Clear
  \/ Osd_Invalid

SpecOsd == InitOsd /\ [][NextOsd]_vars


(***************************************************************************)
(* deck_ctl_give_status.  A reply is kept with its operand msg[2]: the     *)
(* deck info of a Deck Status, the aborted opcode of a Feature Abort.      *)
(***************************************************************************)
CEC_OP_DECK_INFO_PLAY == 17

CEC_OP_DECK_INFO_OTHER == 31

CEC_MSG_GIVE_DECK_STATUS == 26

\* what comes back for a Give Deck Status: nothing, a Deck Status with a
\* deck info in or out of range, or a Feature Abort that names the opcode
GiveStatusReplies ==
  {[tx_ok |-> FALSE, status |-> "none", operand |-> 0],
   [tx_ok |-> TRUE, status |-> "timed_out", operand |-> 0]}
    \cup [tx_ok : {TRUE}, status : {"ok"},
          operand : {CEC_OP_DECK_INFO_PLAY - 1, CEC_OP_DECK_INFO_PLAY,
                     CEC_OP_DECK_INFO_OTHER, CEC_OP_DECK_INFO_OTHER + 1}]
    \cup [tx_ok : {TRUE},
          status : {"abort_unrecognized", "abort_refused", "abort_invalid_op"},
          operand : {CEC_MSG_GIVE_DECK_STATUS}]

\* cec_ops_deck_status(&msg, &deck_info): deck_info = msg.msg[2]
cec_ops_deck_status(m) == m.operand

\* deck_info < CEC_OP_DECK_INFO_PLAY || deck_info > CEC_OP_DECK_INFO_OTHER
deck_info_out_of_range(d) ==
  d < CEC_OP_DECK_INFO_PLAY \/ d > CEC_OP_DECK_INFO_OTHER

StartGiveStatus == StartSubtest({"deck_ctl_give_status"})

\* Give Deck Status [Once] and the checks on its reply
GiveStatus_Once ==
  /\ pc = "running" /\ test_fn = "deck_ctl_give_status" /\ step = "start"
  /\ \E m \in GiveStatusReplies :
       /\ msg' = m
       /\ replies' = Append(replies, m)
       /\ IF ~m.tx_ok \/ timed_out(m)
          THEN Return(FAIL, TRUE)
          ELSE IF \/ fail_on_test_v2(cec_version,
                                     has_deck_ctl /\ cec_msg_status_is_abort(m))
                  \/ fail_on_test_v2(cec_version,
                                     ~has_deck_ctl /\ ~is_unrecognized_op(m))
               THEN Return(FAIL, TRUE)
               ELSE IF cec_msg_status_is_abort(m)
                    THEN Return(AbortTriage(m), FALSE)
                    ELSE IF deck_info_out_of_range(cec_ops_deck_status(m))
                         THEN Return(FAIL, TRUE)
                         ELSE Goto("on", FALSE)
  /\ sent' = sent + 1
  /\ UNCHANGED << engineVars, auxVars, pc, test_fn, idx, deckVars, tunerVars,
                  timerVars >>

\* the reply to Give Deck Status [On] is not one the subtest goes on with
OnReplyFails(m) ==
  \/ ~m.tx_ok
  \/ timed_out(m)
  \/ deck_info_out_of_range(cec_ops_deck_status(m))

\* Give Deck Status [On] and the checks on its reply
GiveStatus_On ==
  /\ pc = "running" /\ test_fn = "deck_ctl_give_status" /\ step = "on"
  /\ \E m \in GiveStatusReplies :
       /\ msg' = m
       /\ replies' = Append(replies, m)
       /\ IF OnReplyFails(m)
          THEN Return(FAIL, TRUE)
          ELSE Goto("off", FALSE)
  /\ sent' = sent + 1
  /\ UNCHANGED << engineVars, auxVars, pc, test_fn, idx, deckVars, tunerVars,
                  timerVars >>

\* Give Deck Status [Off], with msg.reply = CEC_MSG_DECK_STATUS
GiveStatus_Off ==
  /\ pc = "running" /\ test_fn = "deck_ctl_give_status" /\ step = "off"
  /\ \E m \in GiveStatusReplies :
       /\ msg' = m
       /\ replies' = Append(replies, m)
       /\ IF ~m.tx_ok \/ ~timed_out(m)
          THEN Return(FAIL, TRUE)
          ELSE Return(OK, FALSE)
  /\ sent' = sent + 1
  /\ UNCHANGED << engineVars, auxVars, pc, test_fn, idx, deckVars, tunerVars,
                  timerVars >>

NextGiveStatus ==
  \/ StartGiveStatus
  \/ GiveStatus_Once
  \/ GiveStatus_On
  \/ GiveStatus_Off

SpecGiveStatus == InitSteps /\ [][NextGiveStatus]_vars


(***************************************************************************)
(* The adapter mode across the subtests of a pass.  The iteration of the   *)
(* inner loop that calls a subtest is taken in two steps: up to the call,  *)
(* and from the call to the end of the iteration.                          *)
(***************************************************************************)
ModeTagSelections ==
  { {"TAG_CAP_DISCOVERY_CONTROL", "TAG_ROUTING_CONTROL"},
    {"TAG_ROUTING_CONTROL", "TAG_POWER_STATUS", "TAG_STANDBY_RESUME"},
    {"TAG_CAP_DISCOVERY_CONTROL", "TAG_DYNAMIC_AUTO_LIPSYNC"} }

\* the dispatcher leaves the adapter in the mode the last subtest left
ModeAtCall_Kept(m) == m

\* mode_set_initiator(node), right before subtest.test_fn is called
ModeAtCall(m) == mode_set_initiator

\* the modes the adapter can be in when fn returns r, entered in mode m:
\* routing_control_inactive_source calls mode_set_follower before anything
\* can return; cdc_hec_discover sets initiator and follower, and sets the
\* initiator mode back only after its loop, which the two returns of FAIL
\* do not reach; the other subtests of this file leave the mode alone, and
\* those of the other files can leave any mode
ModeLeft(fn, r, m) ==
  IF fn = "routing_control_inactive_source" THEN {mode_set_follower}
  ELSE IF fn = "cdc_hec_discover"
       THEN IF r = FAIL THEN {CEC_MODE_INITIATOR_FOLLOWER} ELSE {CEC_MODE_INITIATOR}
  ELSE IF fn \in DOMAIN SubtestReturns \cup {"post_test_check_recognized"} THEN {m}
  ELSE Modes

\* the iteration up to the call of the subtest
EnterSubtest ==
  /\ pc = "subtest"
  /\ LET subtest == SubtestAt(gi, si)
     IN  /\ \E m \in MaskReads(subtest, cec_version, has_cec20, log_addr_mask) :
              /\ ~Skips(subtest, cec_version, has_cec20, m, la)
              /\ log_addr_mask' = m
         /\ in_standby' = subtest.in_standby
         /\ mode' = ModeAtCall(mode)
  /\ pc' = "call"
  /\ UNCHANGED << has_remote_control_passthrough, call,
                  configVars, nodeVars, la, test_tags, gi, si, ret, raw,
                  has_warnings, warnings, invoked, skipped, groups_run, report,
                  tableVars, trackVars, collectVars, stepVars, deckVars,
                  tunerVars, timerVars, elapsed, has_cdc, has_osd, twiceVars,
                  remoteVars >>

\* the subtest runs and the iteration ends
LeaveSubtest ==
  /\ pc = "call"
  /\ LET subtest == SubtestAt(gi, si)
         key == safename(subtest.name)
     IN  /\ \E r \in Returns(subtest.test_fn, recognized_op, unrecognized_op, la),
               w \in {warnings} \cup (IF warnings < MaxWarnings THEN {warnings + 1} ELSE {}) :
              /\ raw' = r
              /\ warnings' = w
              /\ has_warnings' = HasWarnings(warnings, w)
              /\ mode' \in ModeLeft(subtest.test_fn, r, mode)
              /\ ret' = Escalate(subtest, la, r)
         /\ report' = PrintResult(subtest.name, ret', has_warnings', mapTests,
                                  mapTestsNoWarnings)
         /\ mapTests' = MapTouch(mapTests, key, 0)
         /\ mapTestsNoWarnings' =
              IF MapGet(mapTests, key, 0) # DONT_CARE
                 /\ ret' = MapGet(mapTests, key, 0) /\ has_warnings'
              THEN MapTouch(mapTestsNoWarnings, key, FALSE)
              ELSE mapTestsNoWarnings
         /\ invoked' = Append(invoked, EntryAt(gi, si))
         /\ IF StopsRun(ret')
            THEN /\ pc' = "done"
                 /\ UNCHANGED << gi, si >>
            ELSE Advance
  /\ UNCHANGED << has_remote_control_passthrough, call,
                  nexpect, opt_arg, opt_ret, nodeVars, la, test_tags, log_addr_mask,
                  in_standby, skipped, groups_run, tableVars, trackVars,
                  collectVars, stepVars, deckVars, tunerVars, timerVars,
                  elapsed, has_cdc, has_osd, twiceVars, remoteVars >>

InitMode ==
  /\ InitCommon
  /\ InitUnit
  /\ pc = "start"
  /\ cat = << >>
  /\ cec_version \in {CEC_OP_CEC_VERSION_1_4, CEC_OP_CEC_VERSION_2_0}
  /\ has_cec20 = TRUE

NextMode ==
  \/ CollectTestsRun
  \/ StartWith(ModeTagSelections)
  \/ EnterGroup
  \/ SkipSubtest
  \/ EnterSubtest
  \/ LeaveSubtest

SpecMode == InitMode /\ [][NextMode]_vars


(***************************************************************************)
(* The Remote Control Passthrough subtests, for every remote address.      *)
(***************************************************************************)
\* the positions of the bits that are set in the number n
Bits(n) == {i \in 0..15 : (n \div (2 ^ i)) % 2 = 1}

CEC_LOG_ADDR_MASK_UNREGISTERED == {15}

\* cec_is_unregistered(log_addr_mask)
cec_is_unregistered(mask) == mask \cap CEC_LOG_ADDR_MASK_UNREGISTERED # {}

\* rc_passthrough_user_ctrl_pressed, for the reply m
rc_passthrough_user_ctrl_pressed(m, version, l) ==
  IF ~m.tx_ok THEN FAIL
  ELSE IF fail_on_test_v2(version, is_unrecognized_op(m) /\ ~cec_is_unregistered({l}))
       THEN FAIL
  ELSE IF is_unrecognized_op(m) THEN OK_NOT_SUPPORTED
  ELSE IF refused(m) THEN OK_REFUSED
  ELSE OK_PRESUMED

\* rc_passthrough_user_ctrl_released, for the reply m: the exemption is
\* tested with la & CEC_LOG_ADDR_MASK_UNREGISTERED, la being the address
\* itself and not its bit
rc_passthrough_user_ctrl_released(m, version, l) ==
  IF ~m.tx_ok THEN FAIL
  ELSE IF fail_on_test_v2(version,
                          /\ cec_msg_status_is_abort(m)
                          /\ ~(Bits(l) \cap CEC_LOG_ADDR_MASK_UNREGISTERED # {}))
       THEN FAIL
  ELSE IF is_unrecognized_op(m) THEN OK_NOT_SUPPORTED
  ELSE IF refused(m) THEN OK_REFUSED
  ELSE OK_PRESUMED

PassthroughFns ==
  {"rc_passthrough_user_ctrl_pressed", "rc_passthrough_user_ctrl_released"}

\* testRemote calls one of the two subtests for some remote address
StartPassthrough ==
  /\ pc = "unit"
  /\ \E l \in CEC_LOG_ADDR_MASK_ALL : la' = l
  /\ \E fn \in PassthroughFns : test_fn' = fn
  /\ pc' = "running"
  /\ step' = "start"
  /\ UNCHANGED << configVars, nodeVars, auxVars, passVars, tableVars,
                  trackVars, collectVars, fret, sent, detected, msg, idx,
                  replies, deckVars, tunerVars, timerVars >>

\* the message is sent and the reply is looked at
Passthrough_Transmit ==
  /\ pc = "running" /\ test_fn \in PassthroughFns /\ step = "start"
  /\ \E m \in Replies :
       /\ msg' = m
       /\ sent' = IF m.tx_ok THEN sent + 1 ELSE sent
       /\ LET r == IF test_fn = "rc_passthrough_user_ctrl_pressed"
                   THEN rc_passthrough_user_ctrl_pressed(m, cec_version, la)
                   ELSE rc_passthrough_user_ctrl_released(m, cec_version, la)
          IN  /\ Return(r, r = FAIL)
              /\ has_remote_control_passthrough' =
                   IF test_fn = "rc_passthrough_user_ctrl_released" /\ r = OK_PRESUMED
                   THEN TRUE
                   ELSE has_remote_control_passthrough
  /\ UNCHANGED << engineVars, elapsed, has_cdc, has_osd, twiceVars, remoteVars,
                  mode, call, pc, test_fn, idx, replies, deckVars, tunerVars,
                  timerVars >>

NextPassthrough ==
  \/ StartPassthrough
  \/ Passthrough_Transmit

SpecPassthrough == InitSteps /\ [][NextPassthrough]_vars

(***************************************************************************)
(* testRemote from its first line on: what it is given, what it finds      *)
(* about the power state of the remote, and the Report Physical Address    *)
(* message it sends before the catalogue.                                  *)
(***************************************************************************)
StartTagSelections == { {"TAG_CORE"}, {"TAG_POWER_STATUS", "TAG_STANDBY_RESUME"} }

\* testRemote up to its loop: m is what transmit_timeout comes back with for
\* Report Physical Address, which is not looked at
TestRemoteStartChecked ==
  /\ pc = "config"
  /\ \E l \in RemoteLAs, tags \in StartTagSelections,
        power_ok \in BOOLEAN, remote_standby \in BOOLEAN, interactive \in BOOLEAN,
        m \in Replies :
       /\ la' = l
       /\ test_tags' = tags
       /\ call' = [power_ok |-> power_ok, remote_in_standby |-> remote_standby,
                   interactive |-> interactive]
       /\ IF RunStarts(power_ok, remote_standby, interactive)
          THEN /\ msg' = m
               /\ sent' = IF m.tx_ok THEN sent + 1 ELSE sent
               /\ pc' = "group"
          ELSE /\ UNCHANGED << msg, sent >>
               /\ pc' = "aborted"
  /\ ret' = 0
  /\ gi' = 1
  /\ UNCHANGED << configVars, nodeVars, log_addr_mask, si, raw, has_warnings,
                  warnings, in_standby, invoked, skipped, groups_run, report,
                  tableVars, trackVars, collectVars, test_fn, step, fret,
                  detected, idx, replies, deckVars, tunerVars, timerVars,
                  elapsed, has_cdc, has_osd, twiceVars, remoteVars, mode,
                  has_remote_control_passthrough >>

NextStart ==
  \/ CollectTestsRun
  \/ TestRemoteStartChecked
  \/ EnterGroup
  \/ SkipSubtest
  \/ InvokeSubtest

SpecStart == InitExpect /\ [][NextStart]_vars


(***************************************************************************)
(* deck_ctl_deck_ctl: Stop, Skip Forward, Skip Reverse and Eject, each     *)
(* followed by deck_status_get; idx is the i of the loop that waits for a  *)
(* skip to finish, replies holds what came back for Give Deck Status.      *)
(***************************************************************************)
\* the value of long_timeout the subtest is run with
long_timeout == 2

\* the deck states a Deck Status reply reports to deck_ctl_deck_ctl
DeckCtlInfos ==
  {"CEC_OP_DECK_INFO_PLAY", "CEC_OP_DECK_INFO_STOP", "CEC_OP_DECK_INFO_NO_MEDIA",
   "CEC_OP_DECK_INFO_SKIP_FWD", "CEC_OP_DECK_INFO_SKIP_REV"}

\* the loop goes on for as long as the deck reports the skip
KeepsWaiting_Unbounded(status, skip, i) == status = skip

\* deck_status == CEC_OP_DECK_INFO_SKIP_... && i < long_timeout
KeepsWaiting(status, skip, i) == status = skip /\ i < long_timeout

\* the skip state a waiting loop looks for, and the step after the loop
SkipOf(s) ==
  IF s = "wait_fwd" THEN "CEC_OP_DECK_INFO_SKIP_FWD" ELSE "CEC_OP_DECK_INFO_SKIP_REV"

AfterWait(s) == IF s = "wait_fwd" THEN "skip_rev" ELSE "eject"

StartDeckCtl == StartSubtest({"deck_ctl_deck_ctl"})

\* Deck Control Stop is sent; the checks up to "if (refused(&msg))"
DeckCtl_Stop ==
  /\ pc = "running" /\ test_fn = "deck_ctl_deck_ctl" /\ step = "start"
  /\ \E m \in Replies :
       /\ msg' = m
       /\ IF ~m.tx_ok
          THEN Return(FAIL, TRUE)
          ELSE IF \/ fail_on_test_v2(cec_version, has_deck_ctl /\ is_unrecognized_op(m))
                  \/ fail_on_test_v2(cec_version, ~has_deck_ctl /\ ~is_unrecognized_op(m))
               THEN Return(FAIL, TRUE)
               ELSE IF is_unrecognized_op(m)
                    THEN Return(OK_NOT_SUPPORTED, FALSE)
                    ELSE IF refused(m)
                         THEN Return(OK_REFUSED, FALSE)
                         ELSE Goto("stop_status", FALSE)
  /\ sent' = sent + 1
  /\ UNCHANGED << engineVars, auxVars, replies, pc, test_fn, idx, deckVars,
                  tunerVars, timerVars >>

\* deck_status_get after Stop, and the checks up to Skip Forward
DeckCtl_StopStatus ==
  /\ pc = "running" /\ test_fn = "deck_ctl_deck_ctl" /\ step = "stop_status"
  /\ \E m \in Replies, d \in DeckCtlInfos :
       LET r == deck_status_get(m, d)
       IN  /\ deck_status' = r.deck_status
           /\ replies' = Append(replies, m)
           /\ IF HelperFailed(r.ret)
              THEN Return(FAIL, TRUE)
              ELSE IF cec_msg_status_is_abort(msg)
                   THEN IF ~incorrect_mode(msg)
                        THEN Return(FAIL, TRUE)
                        ELSE Return(OK, FALSE)
                   ELSE IF r.deck_status \notin {"CEC_OP_DECK_INFO_STOP",
                                                 "CEC_OP_DECK_INFO_NO_MEDIA"}
                        THEN Return(FAIL, TRUE)
                        ELSE Goto("skip_fwd", FALSE)
  /\ sent' = sent + 1
  /\ UNCHANGED << engineVars, auxVars, pc, test_fn, msg, idx, has_deck_ctl,
                  tunerVars, timerVars >>

\* Skip Forward, Skip Reverse or Eject is sent
DeckCtl_Command ==
  /\ pc = "running" /\ test_fn = "deck_ctl_deck_ctl"
  /\ step \in {"skip_fwd", "skip_rev", "eject"}
  /\ \E m \in Replies :
       /\ msg' = m
       /\ IF ~m.tx_ok
          THEN Return(FAIL, TRUE)
          ELSE IF step # "skip_fwd" /\ cec_msg_status_is_abort(m)
               THEN Return(FAIL, TRUE)
               ELSE Goto(IF step = "skip_fwd" THEN "skip_fwd_status"
                         ELSE IF step = "skip_rev" THEN "skip_rev_status"
                         ELSE "eject_status", FALSE)
  /\ sent' = sent + 1
  /\ UNCHANGED << engineVars, auxVars, replies, pc, test_fn, idx, deckVars,
                  tunerVars, timerVars >>

\* deck_status_get after a skip command, up to the loop that waits
DeckCtl_SkipStatus ==
  /\ pc = "running" /\ test_fn = "deck_ctl_deck_ctl"
  /\ step \in {"skip_fwd_status", "skip_rev_status"}
  /\ \E m \in Replies, d \in DeckCtlInfos :
       LET r == deck_status_get(m, d)
       IN  /\ deck_status' = r.deck_status
           /\ replies' = Append(replies, m)
           /\ IF HelperFailed(r.ret)
              THEN Return(FAIL, TRUE)
              ELSE IF step = "skip_fwd_status" /\ incorrect_mode(msg)
                   THEN IF r.deck_status # "CEC_OP_DECK_INFO_NO_MEDIA"
                        THEN Return(FAIL, TRUE)
                        ELSE Return(OK, FALSE)
                   ELSE IF step = "skip_fwd_status" /\ cec_msg_status_is_abort(msg)
                        THEN Return(FAIL, TRUE)
                        ELSE Goto(IF step = "skip_fwd_status" THEN "wait_fwd"
                                  ELSE "wait_rev", FALSE)
  /\ sent' = sent + 1
  /\ idx' = 0
  /\ UNCHANGED << engineVars, auxVars, pc, test_fn, msg, has_deck_ctl,
                  tunerVars, timerVars >>

\* one turn of a waiting loop: sleep(1), deck_status_get, i++
DeckCtl_Poll ==
  /\ pc = "running" /\ test_fn = "deck_ctl_deck_ctl"
  /\ step \in {"wait_fwd", "wait_rev"}
  /\ KeepsWaiting(deck_status, SkipOf(step), idx)
  /\ \E m \in Replies, d \in DeckCtlInfos :
       LET r == deck_status_get(m, d)
       IN  /\ deck_status' = r.deck_status
           /\ replies' = Append(replies, m)
           /\ IF HelperFailed(r.ret)
              THEN Return(FAIL, TRUE) /\ UNCHANGED idx
              ELSE Goto(step, FALSE) /\ idx' = idx + 1
  /\ sent' = sent + 1
  /\ UNCHANGED << engineVars, auxVars, pc, test_fn, msg, has_deck_ctl,
                  tunerVars, timerVars >>

\* a waiting loop is left: fail_on_test(deck_status != CEC_OP_DECK_INFO_PLAY)
DeckCtl_Waited ==
  /\ pc = "running" /\ test_fn = "deck_ctl_deck_ctl"
  /\ step \in {"wait_fwd", "wait_rev"}
  /\ ~KeepsWaiting(deck_status, SkipOf(step), idx)
  /\ IF deck_status # "CEC_OP_DECK_INFO_PLAY"
     THEN Return(FAIL, TRUE)
     ELSE Goto(AfterWait(step), FALSE)
  /\ UNCHANGED << engineVars, auxVars, replies, pc, test_fn, sent, msg, idx,
                  deckVars, tunerVars, timerVars >>

\* deck_status_get after Eject
DeckCtl_EjectStatus ==
  /\ pc = "running" /\ test_fn = "deck_ctl_deck_ctl" /\ step = "eject_status"
  /\ \E m \in Replies, d \in DeckCtlInfos :
       LET r == deck_status_get(m, d)
       IN  /\ deck_status' = r.deck_status
           /\ replies' = Append(replies, m)
           /\ IF HelperFailed(r.ret)
              THEN Return(FAIL, TRUE)
              ELSE IF r.deck_status # "CEC_OP_DECK_INFO_NO_MEDIA"
                   THEN Return(FAIL, TRUE)
                   ELSE Return(OK, FALSE)
  /\ sent' = sent + 1
  /\ UNCHANGED << engineVars, auxVars, pc, test_fn, msg, idx, has_deck_ctl,
                  tunerVars, timerVars >>

NextDeckCtl ==
  \/ StartDeckCtl
  \/ DeckCtl_Stop
  \/ DeckCtl_StopStatus
  \/ DeckCtl_Command
  \/ DeckCtl_SkipStatus
  \/ DeckCtl_Poll
  \/ DeckCtl_Waited
  \/ DeckCtl_EjectStatus

SpecDeckCtl == InitSteps /\ [][NextDeckCtl]_vars

\* the subtest is not suspended for ever: a step that can be taken is taken
FairSpecDeckCtl == SpecDeckCtl /\ WF_vars(NextDeckCtl)

(***************************************************************************)
(* Properties.                                                             *)
(***************************************************************************)
Range(s) == { s[i] : i \in DOMAIN s }

Count(s, e) == Cardinality({ i \in DOMAIN s : s[i] = e })

\* the catalogue entry at position e = <<group, index>>
Entry(e) == tests[e[1]].subtests[e[2]]

\* the positions of the catalogue
Positions ==
  UNION { { << g, s >> : s \in 1..Len(tests[g].subtests) } : g \in 1..Len(tests) }

\* catalogue order
Before(a, b) == a[1] < b[1] \/ (a[1] = b[1] /\ a[2] < b[2])

\* the last entry that was invoked
Last == invoked[Len(invoked)]

\* the pass has ended without a critical failure
EndedNormally == pc = "done" /\ ret # FAIL_CRITICAL

\* C1: once the outcome of a subtest is FAIL_CRITICAL, no further subtest is
\* invoked or skipped and no further feature group is started in that pass.
C1_CriticalStopsPass ==
  [][ret = FAIL_CRITICAL =>
       /\ invoked' = invoked
       /\ skipped' = skipped
       /\ groups_run' = groups_run]_vars

\* a full-selection pass stopped by Polling Message, with the rest of the
\* catalogue not run
C1_Witness ==
  /\ pc = "done"
  /\ ret = FAIL_CRITICAL
  /\ test_tags = TAG_ALL
  /\ invoked # << >>
  /\ Last = << 3, 1 >>
  /\ groups_run = << 1, 2, 3 >>

\* C2: every outcome other than FAIL_CRITICAL is local: a pass that meets no
\* FAIL_CRITICAL ends only at the end of the catalogue, and every subtest of
\* a selected group is then either skipped by a qualifier or invoked exactly
\* once, while no subtest of another group is invoked.
C2_OtherOutcomesAreLocal ==
  EndedNormally =>
    \A e \in Positions :
      IF tests[e[1]].tags \subseteq test_tags
      THEN Count(invoked, e) + Count(skipped, e) = 1
      ELSE Count(invoked, e) + Count(skipped, e) = 0

\* a pass over the standby group that skipped one subtest, invoked the
\* others and ended with a Refused outcome
C2_Witness ==
  /\ EndedNormally
  /\ test_tags = {"TAG_POWER_STATUS", "TAG_STANDBY_RESUME"}
  /\ ret = OK_REFUSED
  /\ Len(skipped) = 1
  /\ Len(invoked) = 4

\* C3: when a subtest whose la_mask does not contain the remote's address
\* returns Pass (0), the dispatcher's outcome for it is OK_UNEXPECTED, and
\* that is what is printed when the operator expects nothing.
C3_PassOutsideMaskIsUnexpected ==
  (invoked # << >> /\ la \notin Entry(Last).la_mask /\ raw = OK) =>
    /\ ret = OK_UNEXPECTED
    /\ MapGet(mapTests, safename(Entry(Last).name), 0) = DONT_CARE
         => report = Line(Entry(Last).name, OK_UNEXPECTED, "")

\* "Set OSD String with default timeout" (TV only) returned Pass against a
\* recording device
C3_Witness ==
  /\ invoked # << >>
  /\ Last = << 6, 1 >>
  /\ la = 1
  /\ raw = OK
  /\ ret = OK_UNEXPECTED

\* C4 as stated: a feature group runs whenever at least one of its tags is
\* selected.
C4_Original ==
  EndedNormally =>
    \A g \in 1..Len(tests) :
      (tests[g].tags \cap test_tags) # {} => g \in Range(groups_run)

\* C4 (amended): a feature group runs if and only if every one of its tags is
\* selected; the group tagged POWER_STATUS|STANDBY_RESUME does not run when
\* only one of the two tags is selected.
C4_GroupNeedsAllItsTags ==
  /\ \A g \in Range(groups_run) : tests[g].tags \subseteq test_tags
  /\ EndedNormally =>
       \A g \in 1..Len(tests) :
         tests[g].tags \subseteq test_tags => g \in Range(groups_run)

\* a pass with only POWER_STATUS selected has ended and ran the power status
\* group but not the standby group
C4_Witness ==
  /\ EndedNormally
  /\ test_tags = {"TAG_POWER_STATUS"}
  /\ groups_run = << 2 >>
  /\ Len(invoked) = 1

\* C5 as stated: only subtests whose la_mask contains the remote's address
\* are invoked.
C5_Original ==
  \A e \in Range(invoked) : la \in Entry(e).la_mask

\* C5 (amended): the la_mask filters nothing: a subtest is skipped only
\* because of its CEC 2.0 or standby qualifier, and at the end of a pass
\* without critical failure every subtest of a selected group that has no
\* qualifier was invoked, whether or not its la_mask contains the remote's
\* address.
C5_MaskFiltersNothing ==
  /\ \A e \in Range(skipped) : Entry(e).for_cec20 \/ Entry(e).in_standby
  /\ EndedNormally =>
       \A e \in Positions :
         (/\ tests[e[1]].tags \subseteq test_tags
          /\ ~Entry(e).for_cec20
          /\ ~Entry(e).in_standby)
           => e \in Range(invoked)

\* "Record TV Screen" (TV only) was invoked against a recording device
C5_Witness ==
  /\ la = 1
  /\ << 11, 1 >> \in Range(invoked)
  /\ la \notin Entry(<< 11, 1 >>).la_mask

\* C6: subtests are invoked in catalogue order: groups in the order of
\* tests[], and the subtests of a group in the order of its vector.
C6_CatalogueOrder ==
  /\ \A i, j \in DOMAIN invoked : i < j => Before(invoked[i], invoked[j])
  /\ \A i, j \in DOMAIN groups_run : i < j => groups_run[i] < groups_run[j]

\* three subtests of two groups have been invoked
C6_Witness ==
  /\ Len(invoked) >= 3
  /\ invoked[1] = << 1, 1 >>
  /\ invoked[2] = << 1, 2 >>
  /\ invoked[3][1] > 1

\* C7: in an iteration of the inner loop the subtest is skipped (nothing is
\* invoked, no outcome, line or warning is produced) when its CEC 2.0
\* qualifier is unmet or when it is a standby subtest and the adapter has no
\* logical address; otherwise it is invoked, its outcome is captured in ret
\* and has_warnings tells whether the warning counter rose during it.
C7_SkipOrInvoke ==
  [][pc = "subtest" =>
       LET st == tests[gi].subtests[si]
       IN  IF \/ st.for_cec20
                   /\ (cec_version < CEC_OP_CEC_VERSION_2_0 \/ ~has_cec20)
              \/ st.in_standby /\ log_addr_mask' = {}
           THEN /\ skipped' = Append(skipped, << gi, si >>)
                /\ UNCHANGED << invoked, ret, raw, report, warnings, has_warnings >>
           ELSE /\ invoked' = Append(invoked, << gi, si >>)
                /\ skipped' = skipped
                /\ ret' = IF la \notin st.la_mask /\ raw' = OK
                          THEN OK_UNEXPECTED ELSE raw'
                /\ has_warnings' = (warnings' > warnings)]_vars

\* the CEC 2.0 standby subtest was skipped, the other standby subtest was
\* invoked, and the last subtest raised the warning counter
C7_Witness ==
  /\ << 19, 3 >> \in Range(skipped)
  /\ << 19, 2 >> \in Range(invoked)
  /\ has_warnings

\* C8: for a subtest with an operator expectation other than DONT_CARE, an
\* outcome (after escalation) that differs from the expectation is printed
\* as FAIL, whatever the outcome is; an outcome that matches is printed as
\* FAIL too when the no-warnings qualifier is set and the subtest raised the
\* warning counter.
C8_ExpectationMismatchFails ==
  invoked # << >> =>
    LET name == Entry(Last).name
        key == safename(name)
    IN  (key \in DOMAIN mapTests /\ mapTests[key] # DONT_CARE) =>
          /\ ret # mapTests[key] => report = Line(name, FAIL, "expected")
          /\ (ret = mapTests[key] /\ has_warnings /\ mapTestsNoWarnings[key])
               => report = Line(name, FAIL, "warnings")

\* Menu Request passed against a recording device while the operator
\* expected OK_UNEXPECTED: printed as FAIL
C8_Witness ==
  /\ invoked # << >>
  /\ Last = << 8, 1 >>
  /\ mapTests["menu_request"] = OK_UNEXPECTED
  /\ ret = OK
  /\ report = Line("Menu Request", FAIL, "expected")

\* two entries of a catalogue with the same normalised name and different
\* test functions
Conflict(c) ==
  LET f == Flatten(c)
  IN  \E i, j \in DOMAIN f :
        /\ i < j
        /\ safename(f[i].name) = safename(f[j].name)
        /\ f[i].test_fn # f[j].test_fn

\* C9: collectTests ends the process exactly when two catalogue entries have
\* the same normalised name and different test functions; otherwise it
\* accepts the catalogue, entries with the same name and function included,
\* and registers every normalised name once, with DONT_CARE and without the
\* no-warnings qualifier.
C9_DuplicateNames ==
  /\ pc = "exited" => (col.exited /\ Conflict(cat))
  /\ pc = "collected" =>
       /\ ~col.exited
       /\ ~Conflict(cat)
       /\ DOMAIN col.mapTests = { safename(s.name) : s \in Range(Flatten(cat)) }
       /\ DOMAIN col.mapTestsNoWarnings = DOMAIN col.mapTests
       /\ \A k \in DOMAIN col.mapTests :
            col.mapTests[k] = DONT_CARE /\ col.mapTestsNoWarnings[k] = FALSE

\* a catalogue with the same subtest (same name, same function) in both
\* feature groups was accepted and the name registered once
C9_Witness ==
  /\ pc = "collected"
  /\ Len(cat[1].subtests) = 1
  /\ Len(cat[2].subtests) = 1
  /\ cat[1].subtests[1] = cat[2].subtests[1]
  /\ Cardinality(DOMAIN col.mapTests) = 1

\* C10: post_test_check_recognized returns FAIL if and only if some opcode
\* in 0..255 is marked both recognized and unrecognized for the remote it is
\* called for, and Pass (0) otherwise.
C10_CheckFailsIffMarkedBothWays ==
  pc = "checked" =>
    /\ check_ret \in {OK, FAIL}
    /\ check_ret = FAIL <=>
         \E op \in 0..255 :
           op \in recognized_op[check_la] /\ op \in unrecognized_op[check_la]

\* opcode 255 was marked both ways for the remote and the check failed
C10_Witness ==
  /\ pc = "checked"
  /\ 255 \in recognized_op[check_la]
  /\ 255 \in unrecognized_op[check_la]
  /\ check_ret = FAIL


\* an opcode of remote r is marked both recognized and unrecognized
MarkedBothWays(r) ==
  \E op \in 0..255 : op \in recognized_op[r] /\ op \in unrecognized_op[r]

\* C11 as stated: the check fails for an opcode marked both ways on any
\* remote address, not only on the remote under test.
C11_Original ==
  pc = "checked" =>
    (check_ret = FAIL <=> \E r \in RemoteLAs : MarkedBothWays(r))

\* C11 (amended): the check reads the tables of the remote it is called for
\* and of no other: it fails only when that remote has an opcode marked both
\* ways, and it passes when it has none, whatever is marked for the other
\* remote addresses.
C11_ChecksOnlyRemoteUnderTest ==
  pc = "checked" =>
    /\ check_ret = FAIL => MarkedBothWays(check_la)
    /\ (~MarkedBothWays(check_la)
        /\ \E r \in RemoteLAs \ {check_la} : MarkedBothWays(r))
         => check_ret = OK

\* another remote has an opcode marked both ways, the remote under test has
\* none, and the check passed
C11_Witness ==
  /\ pc = "checked"
  /\ check_ret = OK
  /\ ~MarkedBothWays(check_la)
  /\ \E r \in RemoteLAs \ {check_la} : MarkedBothWays(r)


\* the catalogue entry at position e is the consistency check
IsCheck(e) == Entry(e).test_fn = "post_test_check_recognized"

\* how many times the consistency check was invoked in the pass
ChecksRun == Cardinality({ i \in DOMAIN invoked : IsCheck(invoked[i]) })

\* C12 as stated: in every pass, for any tag selection, the consistency check
\* is executed exactly once and after every other subtest.
C12_Original ==
  pc = "done" => (ChecksRun = 1 /\ IsCheck(Last))

\* C12 (amended): the consistency check is the only subtest of the last
\* group of tests[], which is tagged TAG_CORE.  A pass never executes it more
\* than once, never skips it and invokes nothing after it; a pass that was
\* not stopped by a critical failure executes it if and only if TAG_CORE is
\* selected, and a pass stopped by a critical failure does not execute it.
C12_CheckLastWhenCoreSelected ==
  /\ ChecksRun <= 1
  /\ \A i \in DOMAIN invoked : IsCheck(invoked[i]) => i = Len(invoked)
  /\ \A e \in Range(skipped) : ~IsCheck(e)
  /\ EndedNormally => (ChecksRun = 1 <=> "TAG_CORE" \in test_tags)
  /\ (pc = "done" /\ ret = FAIL_CRITICAL) => ChecksRun = 0

\* a pass over the Core and System Information groups has ended with the
\* consistency check as the last of its subtests
C12_Witness ==
  /\ EndedNormally
  /\ test_tags = {"TAG_SYSTEM_INFORMATION", "TAG_CORE"}
  /\ groups_run = << 1, 3, 20 >>
  /\ ChecksRun = 1
  /\ IsCheck(Last)
  /\ Len(invoked) > 1


\* the codes a subtest function hands to the dispatcher
SubtestOutcomes ==
  {OK, FAIL, OK_PRESUMED, OK_NOT_SUPPORTED, OK_REFUSED, NOTAPPLICABLE, FAIL_CRITICAL}

\* C13: a subtest is invoked at most once in a pass and is never both skipped
\* and invoked; its invocation ends with exactly one outcome of the closed
\* set {Pass, Fail, NotSupported, Refused, Presumed, NotApplicable,
\* Unexpected, CriticalFail}.  The subtest function itself never returns
\* Unexpected or ExpectedFail: Unexpected is the outcome only when the
\* dispatcher escalated a Pass outside the la_mask.
C13_OneOutcomeOfClosedSet ==
  /\ \A e \in Positions : Count(invoked, e) + Count(skipped, e) <= 1
  /\ invoked # << >> =>
       /\ raw \in SubtestOutcomes
       /\ raw \notin {OK_UNEXPECTED, OK_EXPECTED_FAIL}
       /\ ret \in SubtestOutcomes \cup {OK_UNEXPECTED}
       /\ ret = OK_UNEXPECTED => (raw = OK /\ la \notin Entry(Last).la_mask)
       /\ ret # OK_UNEXPECTED => ret = raw

\* "Set OSD String with invalid operand" ended with NotApplicable, after the
\* two subtests before it
C13_Witness ==
  /\ invoked # << >>
  /\ Last = << 6, 3 >>
  /\ raw = NOTAPPLICABLE
  /\ ret = NOTAPPLICABLE
  /\ Count(invoked, << 6, 1 >>) = 1


\* the last subtest matched the operator's expectation, which carries the
\* no-warnings qualifier, and it raised the warning counter
WarningsMatter ==
  LET key == safename(Entry(Last).name)
  IN  /\ has_warnings
      /\ mapTests[key] # DONT_CARE
      /\ ret = mapTests[key]
      /\ mapTestsNoWarnings[key]

\* C15: a warning raised during a subtest does not change the outcome the
\* dispatcher records: ret is the returned code, escalated or not, whether
\* or not the warning counter rose.  The printed line is the one a run
\* without warnings would print, except that a subtest whose outcome matches
\* the expectation and whose expectation carries the no-warnings qualifier
\* is printed as FAIL.
C15_WarningsAreSideChannel ==
  invoked # << >> =>
    LET st == Entry(Last)
    IN  /\ ret = IF raw = OK /\ la \notin st.la_mask THEN OK_UNEXPECTED ELSE raw
        /\ report = IF WarningsMatter
                    THEN Line(st.name, FAIL, "warnings")
                    ELSE PrintResult(st.name, ret, FALSE, mapTests,
                                     mapTestsNoWarnings)

\* Menu Request passed against a TV as the operator expected, with the
\* no-warnings qualifier, and raised the warning counter: the outcome is
\* still Pass and the line printed is a failure
C15_Witness ==
  /\ invoked # << >>
  /\ Last = << 8, 1 >>
  /\ WarningsMatter
  /\ raw = OK
  /\ ret = OK
  /\ report = Line("Menu Request", FAIL, "warnings")


AbortsUnknown(m) ==
  m.tx_ok /\ m.status = "abort_unrecognized" /\ m.abort_msg = unknown_opcode

\* the message got no reply within the timeout
NoReply(m) == m.tx_ok /\ m.status = "timed_out"

\* the answers core_unknown is written to accept
UnknownHandledWell ==
  /\ Len(replies) = 2
  /\ AbortsUnknown(replies[1])
  /\ NoReply(replies[2])

\* C16 as stated: core_unknown returns Pass only if the directed message is
\* answered by a Feature Abort (unrecognized opcode, 0xFE) and the broadcast
\* gets no reply.
C16_Original ==
  (test_fn = "core_unknown" /\ step = "returned" /\ fret = OK)
    => UnknownHandledWell

\* C16 (amended): core_unknown returns Pass if the directed message is
\* answered by a Feature Abort (unrecognized opcode, 0xFE) and the broadcast
\* gets no reply, and also, when the remote is in standby, if the directed
\* message could not be sent or timed out, in which case nothing is
\* broadcast; in every other case it returns Fail.
C16_PassIffAbortedAndSilent ==
  (test_fn = "core_unknown" /\ step = "returned") =>
    /\ fret \in {OK, FAIL}
    /\ fret = OK <=>
         \/ UnknownHandledWell
         \/ /\ in_standby
            /\ Len(replies) = 1
            /\ sent = 1
            /\ (~replies[1].tx_ok \/ replies[1].status = "timed_out")
    /\ (/\ replies[1].tx_ok
        /\ replies[1].status # "timed_out"
        /\ ~AbortsUnknown(replies[1])) => (fret = FAIL /\ sent = 1)
    /\ (Len(replies) = 2 /\ ~NoReply(replies[2])) => fret = FAIL

\* the remote is in standby, the directed message timed out, and
\* core_unknown returned Pass without broadcasting
C16_Witness ==
  /\ test_fn = "core_unknown"
  /\ step = "returned"
  /\ in_standby
  /\ replies = << [tx_ok |-> TRUE, status |-> "timed_out", abort_msg |-> 0] >>
  /\ fret = OK
  /\ sent = 1


\* the last message of a timer subtest was accepted: msg answers steps[idx]
JustAccepted ==
  /\ test_fn \in {"timer_errors", "timer_overlap_warning"}
  /\ idx >= 1
  /\ step = "script" \/ (step = "returned" /\ fret = OK)

\* the two timers have a quarter of an hour in common
SharePoint(a, b) ==
  /\ a.day = b.day
  /\ a.month = b.month
  /\ \E q \in 0..95 :
       /\ StartOf(a) <= 15 * q /\ 15 * q < EndOf(a)
       /\ StartOf(b) <= 15 * q /\ 15 * q < EndOf(b)

\* one timer ends exactly when the other starts
Touch(a, b) == EndOf(a) = StartOf(b) \/ EndOf(b) = StartOf(a)

\* C17: two timers of a day that only touch do not overlap, and two that
\* share a point, the same start or the same end included, overlap.  While
\* timer_overlap_warning goes on, the timers the remote holds are the ones
\* sent so far, every accepted reply is a Timer Status without error whose
\* overlap warning is what the rule gives for the timers set before, the
\* replies for 08:00+2:00, 10:00+0:15 and 07:45+0:15 have no warning and the
\* replies for the five timers after them have it; the subtest returns OK
\* only after all sixteen replies were accepted, one after the other.
C17_OverlapWarningAsRuled ==
  /\ [](  (test_fn = "timer_overlap_warning" /\ JustAccepted /\ idx <= 8) =>
            LET new == steps[idx].t
                before == {steps[j].t : j \in 1..(idx - 1)}
            IN  /\ timers = before \cup {new}
                /\ new \notin before
                /\ msg.tx_ok /\ msg.status = "ok"
                /\ cec_ops_timer_status(msg).prog_error = 0
                /\ timer_overlap_warning_is_set(msg)
                     <=> \E s \in before : Overlaps(new, s)
                /\ timer_overlap_warning_is_set(msg) <=> idx \in 4..8
                /\ \A s \in before :
                     /\ Touch(new, s) => ~Overlaps(new, s)
                     /\ SharePoint(new, s) <=> Overlaps(new, s)
                     /\ StartOf(new) = StartOf(s) => Overlaps(new, s)
                     /\ EndOf(new) = EndOf(s) => Overlaps(new, s))
  /\ []((test_fn = "timer_overlap_warning" /\ step = "returned" /\ fret = OK)
          => (idx = 16 /\ sent = 16 /\ timers = {}))
  /\ [][test_fn = "timer_overlap_warning" => idx' \in {idx, idx + 1}]_vars

\* timer_overlap_warning has passed
C17_Witness ==
  /\ test_fn = "timer_overlap_warning"
  /\ step = "returned"
  /\ fret = OK
  /\ idx = 16
  /\ msg.op2 = 128


\* the calendar year of the February that timer_errors aims at
TargetYear(t) == IF t.mon > Feb THEN t.year + 1 ELSE t.year

\* C18: the last message of timer_errors names 29 February as the invalid
\* day exactly when the target year, the current one or the next one after
\* February, is not a leap year of the Gregorian calendar, and 30 February
\* exactly when it is one.
C18_Original ==
  (test_fn = "timer_errors" /\ step = "script" /\ idx = 12) =>
    /\ cur.t.month = Feb
    /\ cur.t.day = 29 <=> ~IsLeapYear(TargetYear(current_time))
    /\ cur.t.day = 30 <=> IsLeapYear(TargetYear(current_time))

\* in January 2000 timer_errors is about to send 29 February as invalid day
C18_Witness ==
  /\ test_fn = "timer_errors"
  /\ step = "script"
  /\ idx = 12
  /\ current_time.year = 2000
  /\ current_time.mon = Jan
  /\ cur.t.day = 29


\* C19: the timer of message 9 is submitted again as message 10, and
\* timer_errors goes on only if the reply to the second submission is a
\* Timer Status with the duplicate-timer error; once the timer is cleared,
\* the remote no longer holds it.
C19_Original ==
  /\ (test_fn = "timer_errors" /\ JustAccepted /\ idx = 10) =>
       /\ steps[10].t = steps[9].t
       /\ timers = {steps[9].t}
       /\ msg.status = "ok"
       /\ cec_ops_timer_status(msg).prog_error = CEC_OP_PROG_ERROR_DUPLICATE
  /\ (test_fn = "timer_errors" /\ JustAccepted /\ idx >= 11) =>
       steps[9].t \notin timers

\* the second submission was answered with "no free timer available", and
\* timer_errors goes on
C19_Witness ==
  /\ test_fn = "timer_errors"
  /\ step = "script"
  /\ idx = 10
  /\ steps[10].t = steps[9].t
  /\ timers = {steps[9].t}
  /\ msg.status = "ok"
  /\ msg.op2 = 1

\* the reply tells of an error in the timer: a Feature Abort for an invalid
\* operand, or a Timer Status with a programming error
InputError(m) ==
  /\ m.tx_ok
  /\ \/ m.status = "abort_invalid_op"
     \/ m.status = "ok" /\ cec_ops_timer_status(m).prog_error # 0

\* the reply is a Timer Status with the overlap warning
OverlapWarned(m) ==
  m.status = "ok" /\ cec_ops_timer_status(m).timer_overlap_warning = 1

\* C20 as stated: the reply timer_errors accepts for month 13 tells of an
\* input error and carries no overlap warning.
C20_Original ==
  (test_fn = "timer_errors" /\ step = "script" /\ idx = 5) =>
    /\ steps[5].t.month = 13
    /\ InputError(msg)
    /\ ~OverlapWarned(msg)

\* C20 (amended): the reply to the timer with month 13 is accepted exactly
\* if it is a Feature Abort for an invalid operand or a Timer Status with a
\* programming error; the overlap warning of the reply plays no part.
C20_Month13NeedsInputError ==
  /\ []((test_fn = "timer_errors" /\ step = "script" /\ idx = 5) =>
          (steps[5].t.month = 13 /\ InputError(msg)))
  /\ [][(test_fn = "timer_errors" /\ step = "script" /\ idx = 4) =>
          /\ idx' = 5 <=> InputError(msg')
          /\ idx' # 5 => (step' = "returned" /\ fret' = FAIL)]_vars

\* the reply to month 13 has a programming error and the overlap warning,
\* and timer_errors goes on
C20_Witness ==
  /\ test_fn = "timer_errors"
  /\ step = "script"
  /\ idx = 5
  /\ steps[5].t.month = 13
  /\ msg.op2 = 129
  /\ OverlapWarned(msg)


\* what is wrong with the operands of a timer, by the rules of spec
\* section 4.3; the year is not among the operands, so 29 February counts
\* as a day of the month here
InputFaults(t) ==
  {f \in {"month", "day", "hour", "minute", "duration", "rec_seq"} :
     \/ f = "month" /\ t.month \notin 1..12
     \/ f = "day" /\ t.month \in 1..12
                  /\ t.day \notin 1..DaysInMonth(2000, t.month)
     \/ f = "hour" /\ t.start_hr >= 24
     \/ f = "minute" /\ t.start_min >= 60
     \/ f = "duration" /\ t.dur_hr = 0 /\ t.dur_min = 0
     \/ f = "rec_seq" /\ t.rec_seq \notin 0..127}

\* the messages of timer_errors that carry a faulty timer
FaultySteps == {1, 2, 3, 4, 5, 6, 7, 8, 12}

C22_Original ==
  (test_fn = "cdc_hec_discover" /\ sent = 1) => elapsed <= MaxWaitMs

\* the last receive was entered at 4750 ms and gave up a second later
C22_Witness ==
  /\ test_fn = "cdc_hec_discover"
  /\ step = "returned"
  /\ msg = NoFrame
  /\ elapsed = 5750


\* the frame the wait is for: a HEC state report for this node that comes
\* from the physical address of the remote
Matched(f) == IsReport(f) /\ f.of_remote

\* the frame is a Feature Abort sent by the remote under test
AbortOfRemote(f) == f.opcode = "FEATURE_ABORT" /\ f.from_la

\* the wait ended before the 5000 ms were over
EndedEarly ==
  /\ test_fn = "cdc_hec_discover"
  /\ step = "returned"
  /\ sent = 1
  /\ elapsed < MaxWaitMs

\* C23 as stated: the wait ends early only for the frame being matched or
\* by a receive that timed out; no other frame ends it early.
C23_Original ==
  EndedEarly => (msg = NoFrame \/ Matched(msg))

\* C23 (amended): every frame delivered while the loop runs is read and
\* counted.  A Feature Abort from another device, a frame that is not a CDC
\* message, a CDC message that is not a HEC state report and a report for
\* another target leave the wait going.  So does the report being matched:
\* it only sets has_cdc.  A Feature Abort from the remote under test ends
\* the wait at once with FAIL.  Otherwise the wait ends when a receive
\* fails or times out, or when 5000 ms have passed at the top of the loop;
\* the result is then 0 if a matching report was read, else not supported.
C23_OnlyAbortOfRemoteEndsWait ==
  /\ [](EndedEarly =>
          \/ msg = NoFrame /\ fret = (IF has_cdc THEN 0 ELSE OK_NOT_SUPPORTED)
          \/ AbortOfRemote(msg) /\ fret = FAIL)
  /\ [][(test_fn = "cdc_hec_discover" /\ step = "loop" /\ msg' \in Frames) =>
          /\ idx' = idx + 1
          /\ AbortOfRemote(msg') => (step' = "returned" /\ fret' = FAIL)
          /\ (~AbortOfRemote(msg') /\ elapsed' < MaxWaitMs)
               => step' = "loop"
          /\ has_cdc' = (has_cdc \/ Matched(msg'))]_vars
  /\ []((test_fn = "cdc_hec_discover" /\ step = "returned" /\ sent = 1
           /\ fret = 0) => has_cdc)

\* the remote under test has answered the broadcast with a Feature Abort
\* after a matching report was read, and the wait ended with FAIL
C23_Witness ==
  /\ EndedEarly
  /\ msg = Frame("FEATURE_ABORT", TRUE, "OTHER", FALSE, FALSE)
  /\ has_cdc
  /\ idx = 2
  /\ fret = FAIL


\* the second pass of testRemote has walked the whole catalogue
SecondPassDone == pc = "done" /\ pass = 2

\* C24: with the catalogue, the tag selection and the expectations fixed, a
\* second pass of testRemote over the Node state the first pass left, against
\* a remote and an adapter that answer as they did before, enters the same
\* groups, skips and invokes the same subtests in the same order, and reports
\* the same return values and result lines.
C24_SecondPassRepeatsFirst ==
  SecondPassDone =>
    /\ invoked = first_pass.invoked
    /\ skipped = first_pass.skipped
    /\ groups_run = first_pass.groups_run
    /\ lines = first_pass.lines

\* both passes are over; the first one set has_osd and went on to the two
\* subtests that read it, and the second one started with has_osd set
C24_Witness ==
  /\ SecondPassDone
  /\ has_osd[la]
  /\ Len(invoked) >= 3
  /\ \E i \in DOMAIN lines :
       /\ SubtestAt(lines[i].entry[1], lines[i].entry[2]).test_fn
            = "osd_string_set_until_clear"
       /\ lines[i].ret # NOTAPPLICABLE


\* a query subtest has returned after a Feature Abort reached it; Give OSD
\* Name and Get Menu Language are looked at for a TV only
QueryAborted ==
  /\ test_fn \in QuerySubtests
  /\ step = "returned"
  /\ msg.tx_ok
  /\ msg.status \in {"abort_unrecognized", "abort_refused",
                     "abort_incorrect_mode", "abort_invalid_op"}
  /\ test_fn \in {"device_osd_transfer_give", "system_info_get_menu_lang"}
       => la = 0

\* what the three checks come to, in their order
TriageOutcome ==
  IF msg.status = "abort_unrecognized" THEN fret = OK_NOT_SUPPORTED
  ELSE IF msg.status = "abort_refused" THEN fret = OK_REFUSED
       ELSE fret = OK_PRESUMED

\* Record On was answered with Feature Abort [Unrecognized opcode] by a
\* remote whose primary device type is Recording Device
RecorderLacksRecordOn ==
  /\ test_fn = "one_touch_rec_on"
  /\ prim_type = "RECORD"
  /\ msg.status = "abort_unrecognized"

\* C25 as stated: in every query subtest a Feature Abort is sorted into
\* NotSupported (unrecognized opcode), Refused (refused) or Presumed (any
\* other reason), and never into Pass or Fail.
C25_Original == QueryAborted => TriageOutcome

\* C25: in the query subtests a Feature Abort is sorted into NotSupported
\* (unrecognized opcode), Refused (refused) or Presumed (any other reason),
\* in that order, and never into Pass or Fail, except that Record On fails
\* when a recording device answers it with unrecognized opcode.
C25_TriageUnlessRecorder ==
  QueryAborted =>
    IF RecorderLacksRecordOn THEN fret = FAIL ELSE TriageOutcome

\* a Set Digital Timer answered with Feature Abort [Invalid operand] has
\* come to Presumed
C25_Witness ==
  /\ QueryAborted
  /\ test_fn = "timer_prog_set_digital_timer"
  /\ msg.status = "abort_invalid_op"
  /\ fret = OK_PRESUMED


\* system_info_polling has returned
Polled == test_fn = "system_info_polling" /\ step = "returned"

\* C26: system_info_polling returns Fail when the transmit ioctl fails;
\* otherwise CriticalFail when an address in the remote mask is not
\* acknowledged or an address outside it is acknowledged, NotSupported when
\* an address outside the mask is not acknowledged, and Pass when an address
\* inside the mask is acknowledged.
C26_PollingOutcomes ==
  Polled =>
    /\ ~msg.tx_ok => fret = FAIL
    /\ (msg.tx_ok /\ la \in remote_la_mask /\ msg.status = "nack")
         => fret = FAIL_CRITICAL
    /\ (msg.tx_ok /\ la \notin remote_la_mask /\ msg.status = "ok")
         => fret = FAIL_CRITICAL
    /\ (msg.tx_ok /\ la \notin remote_la_mask /\ msg.status = "nack")
         => fret = OK_NOT_SUPPORTED
    /\ (msg.tx_ok /\ la \in remote_la_mask /\ msg.status = "ok")
         => fret = OK

\* the poll of an address of the remote mask was not acknowledged
C26_Witness ==
  /\ Polled
  /\ msg.tx_ok
  /\ la \in remote_la_mask
  /\ msg.status = "nack"
  /\ fret = FAIL_CRITICAL


\* a send-and-await-reply transaction is over and the message had been sent
TransactionDone ==
  test_fn = "transmit_timeout" /\ step = "returned" /\ msg.tx_ok

\* C27: a completed transaction has exactly one of three results: the
\* expected reply from the destination, a Feature Abort from the
\* destination, or a timeout; timed out and abort never hold together, and
\* there is an abort reason only when there is an abort.
C27_ExactlyOneResult ==
  TransactionDone =>
    /\ Cardinality({r \in {"reply", "abort", "timeout"} :
                      \/ r = "reply" /\ rx_is_reply(msg)
                      \/ r = "abort" /\ rx_is_abort(msg)
                      \/ r = "timeout" /\ rx_timed_out(msg)}) = 1
    /\ ~(rx_timed_out(msg) /\ rx_is_abort(msg))
    /\ rx_is_reply(msg) => (msg.from_dest /\ msg.kind = "reply")
    /\ rx_is_abort(msg) => (msg.from_dest /\ msg.kind = "abort")
    /\ rx_timed_out(msg) => elapsed = msg.timeout
    /\ (msg.reason # "none") => rx_is_abort(msg)

\* a Feature Abort of the destination ended the wait after frames of others
\* had been passed over
C27_Witness ==
  /\ TransactionDone
  /\ rx_is_abort(msg)
  /\ msg.reason = "refused"
  /\ elapsed >= 2 * 500


\* one of the two subtests that read has_osd has returned
OsdReaderReturned ==
  /\ test_fn \in {"osd_string_set_until_clear", "osd_string_invalid"}
  /\ step = "returned"

\* osd_string_set_default has returned after its message was sent
DefaultSent ==
  test_fn = "osd_string_set_default" /\ step = "returned" /\ msg.tx_ok

\* C28: osd_string_set_until_clear and osd_string_invalid return
\* NotApplicable, having sent nothing, exactly when has_osd of the remote is
\* false; has_osd of a remote becomes true only in osd_string_set_default
\* for that remote, when the reply to Set OSD String was neither
\* unrecognized opcode nor refused, and it does become true then, also for
\* an abort with another reason; it never goes back to false.
C28_HasOsdGate ==
  /\ [](OsdReaderReturned =>
          /\ (fret = NOTAPPLICABLE) <=> ~has_osd[la]
          /\ (fret = NOTAPPLICABLE) => sent = 0
          /\ (fret # NOTAPPLICABLE) => sent >= 1 \/ ~msg.tx_ok)
  /\ [](DefaultSent /\ msg.status \notin {"abort_unrecognized", "abort_refused"}
          => has_osd[la])
  /\ [][\A l \in RemoteLAs :
          /\ has_osd[l] => has_osd'[l]
          /\ (~has_osd[l] /\ has_osd'[l]) =>
               /\ test_fn = "osd_string_set_default"
               /\ l = la
               /\ msg'.tx_ok
               /\ msg'.status \notin {"abort_unrecognized", "abort_refused"}]_vars

\* has_osd of the remote was set by an earlier call, and the subtest for an
\* invalid operand went ahead, sent its message and passed
C28_Witness ==
  /\ test_fn = "osd_string_invalid"
  /\ step = "returned"
  /\ has_osd[la]
  /\ sent = 1
  /\ fret = OK


\* the channel scan of tuner_ctl_test is going on
Scanning ==
  /\ pc = "running" /\ test_fn = "tuner_ctl_test"
  /\ step \in {"scan", "scan_status"}

\* C29 as stated: the channel scan ends for every remote, so once the remote
\* reports a service the scan has recorded before, the scan does not go on:
\* no service is recorded twice and the list is no longer than the remote's
\* list of services.
C29_Original ==
  test_fn = "tuner_ctl_test" =>
    \A i, j \in DOMAIN info_vec : info_vec[i] = info_vec[j] => i = j

\* the remote went from its first service to a second one and stayed there:
\* the second service is recorded twice and the scan is still going on
C29_Witness ==
  /\ Scanning
  /\ Len(info_vec) = 3
  /\ info_vec[2] = info_vec[3]
  /\ info_vec[1] # info_vec[2]


\* the reply is a Deck Status with a deck info of the range
ValidDeckStatus(m) ==
  /\ m.tx_ok
  /\ m.status = "ok"
  /\ m.operand >= CEC_OP_DECK_INFO_PLAY
  /\ m.operand <= CEC_OP_DECK_INFO_OTHER

GiveStatusReturned == test_fn = "deck_ctl_give_status" /\ step = "returned"

\* C30 as stated: deck_ctl_give_status passes only if Give Deck Status
\* [Once] and [On] were each answered with a valid Deck Status and nothing
\* came back within the timeout after [Off]; whatever comes back after [Off]
\* makes it fail.
C30_Original ==
  /\ (GiveStatusReturned /\ fret = OK) =>
       /\ Len(replies) = 3
       /\ ValidDeckStatus(replies[1])
       /\ ValidDeckStatus(replies[2])
       /\ replies[3].tx_ok /\ replies[3].status = "timed_out"
  /\ (GiveStatusReturned /\ Len(replies) = 3 /\ replies[3].status # "timed_out")
       => fret = FAIL

\* the subtest passed although Give Deck Status [On] was answered with a
\* Feature Abort
C30_Witness ==
  /\ GiveStatusReturned
  /\ fret = OK
  /\ Len(replies) = 3
  /\ replies[2].status = "abort_invalid_op"


\* system_info_phys_addr has returned
PhysAddrReturned == test_fn = "system_info_phys_addr" /\ step = "returned"

\* Give Physical Address got no Report Physical Address back
PhysAddrUnanswered ==
  ~msg.tx_ok \/ msg.status \in {"timed_out", "abort_unrecognized", "abort_refused"}

\* C31: when Give Physical Address cannot be sent, times out or is aborted,
\* system_info_phys_addr returns CriticalFail outside standby and Pass in a
\* standby subtest; when a reply arrives it returns Pass if the address and
\* the primary device type are the ones stored for the remote, else Fail.
C31_PhysAddrOutcomes ==
  PhysAddrReturned =>
    /\ (PhysAddrUnanswered /\ ~in_standby) => fret = FAIL_CRITICAL
    /\ (PhysAddrUnanswered /\ in_standby) => fret = OK
    /\ ~PhysAddrUnanswered =>
         fret = (IF msg.pa = phys_addr /\ msg.prim = prim_type THEN OK ELSE FAIL)

\* in a standby subtest the question timed out and the subtest passed
C31_Witness ==
  /\ PhysAddrReturned
  /\ in_standby
  /\ msg.status = "timed_out"
  /\ fret = OK


\* the pass ended before the catalogue was walked to its end
StoppedEarly == pc = "done" /\ gi <= Len(tests)

\* the subtest invoked last is one of the two that poll the remote's
\* address and ask for its physical address
LastIsAddressCheck ==
  /\ invoked # << >>
  /\ Entry(Last).test_fn \in {"system_info_polling", "system_info_phys_addr"}

\* C32: of the subtests of this file only system_info_polling and
\* system_info_phys_addr return CriticalFail; every other one returns Pass,
\* Fail, NotSupported, Refused, Presumed or NotApplicable, and a pass stops
\* early only after one of those two.
C32_OnlyAddressChecksAreCritical ==
  /\ (invoked # << >> /\ raw = FAIL_CRITICAL) => LastIsAddressCheck
  /\ StoppedEarly => LastIsAddressCheck
  /\ (invoked # << >> /\ ~LastIsAddressCheck) =>
       raw \in {OK, FAIL, OK_NOT_SUPPORTED, OK_REFUSED, OK_PRESUMED, NOTAPPLICABLE}

\* a pass over the whole catalogue stopped at Physical Address
C32_Witness ==
  /\ StoppedEarly
  /\ raw = FAIL_CRITICAL
  /\ invoked # << >>
  /\ Entry(Last).test_fn = "system_info_phys_addr"
  /\ Len(invoked) >= 2


\* the subtest invoked last is not meant for the remote's address
OutsideMask == invoked # << >> /\ la \notin Entry(Last).la_mask

\* the operator's expectation for the subtest invoked last
ExpectedOfLast == MapGet(mapTests, safename(Entry(Last).name), 0)

\* C33: the escalation to Unexpected touches a raw outcome of Pass only: any
\* other raw outcome of a subtest whose la_mask excludes the remote is left
\* as it is, as is every outcome of a subtest whose la_mask includes it.
\* The escalation comes before the comparison with the operator's
\* expectation, so that an expectation of Pass for an escalated subtest is
\* reported as a mismatch.
C33_OnlyPassEscalates ==
  invoked # << >> =>
    /\ (OutsideMask /\ raw # OK) => ret = raw
    /\ ~OutsideMask => ret = raw
    /\ (OutsideMask /\ raw = OK /\ ExpectedOfLast = OK)
         => report = Line(Entry(Last).name, FAIL, "expected")

\* Menu Request returned Presumed against a TV, for which it is not meant,
\* and Presumed is what the dispatcher kept
C33_Witness ==
  /\ OutsideMask
  /\ Entry(Last).test_fn = "dev_menu_ctl_request"
  /\ raw = OK_PRESUMED
  /\ ret = OK_PRESUMED
  /\ ExpectedOfLast = OK


\* C34: when a subtest is called, node->in_standby is that subtest's
\* in_standby qualifier and the adapter is in initiator mode, whatever the
\* subtest before it left
AtCall == pc = "call"

C34_FreshStateAtCall ==
  AtCall =>
    /\ in_standby = SubtestAt(gi, si).in_standby
    /\ mode = mode_set_initiator

\* Set Stream Path is called, in initiator mode, right after Inactive Source
\* has returned with the adapter in follower mode
C34_Witness ==
  /\ AtCall
  /\ invoked # << >>
  /\ Entry(Last).test_fn = "routing_control_inactive_source"
  /\ SubtestAt(gi, si).test_fn = "routing_control_set_stream_path"
  /\ mode = mode_set_initiator


\* a passthrough subtest has returned for a CEC 2.0 remote that answered
\* with a Feature Abort
AbortedFor20(fn) ==
  /\ test_fn = fn /\ step = "returned"
  /\ cec_version >= CEC_OP_CEC_VERSION_2_0
  /\ msg.tx_ok

\* C35 as stated: for a CEC 2.0 remote User Control Released fails on a
\* Feature Abort for every remote address but 15, which is exempt, as User
\* Control Pressed exempts 15 for an unrecognized-opcode reply.
C35_Original ==
  /\ (AbortedFor20("rc_passthrough_user_ctrl_released") /\ cec_msg_status_is_abort(msg))
       => (fret = FAIL <=> la # 15)
  /\ (AbortedFor20("rc_passthrough_user_ctrl_pressed") /\ is_unrecognized_op(msg))
       => (fret = FAIL <=> la # 15)

\* User Control Released has failed for the CEC 2.0 remote at address 15
\* that answered with a Feature Abort
C35_Witness ==
  /\ AbortedFor20("rc_passthrough_user_ctrl_released")
  /\ cec_msg_status_is_abort(msg)
  /\ la = 15
  /\ fret = FAIL


\* a subtest that sets timers on the remote has returned
TimerSubtestReturned ==
  /\ test_fn \in {"timer_errors", "timer_overlap_warning"}
  /\ step = "returned"

\* C36 as stated: every timer that timer_overlap_warning or timer_errors
\* has set on the remote is cleared again before the subtest returns, on
\* the paths where an intermediate step fails too, so that no timer of the
\* subtest is left on the remote.
C36_Original == TimerSubtestReturned => timers = {}

\* timer_overlap_warning has returned Fail from its second message on, and
\* the timer of its first message is still set on the remote
C36_Witness ==
  /\ test_fn = "timer_overlap_warning"
  /\ step = "returned"
  /\ fret = FAIL
  /\ idx >= 1
  /\ timer_overlap_warning_steps(current_time)[1].t \in timers


\* the normalised names of the subtests of the catalogue
CatalogueNames ==
  {safename(Flatten(tests)[i].name) : i \in 1..Len(Flatten(tests))}

\* the argument has no '=', an empty name, or no digit right after the '='
Malformed(a) == ~a.has_eq \/ a.name = "" \/ ~IsDigitFirst(a.val)

\* C37: setExpectedResult returns 1 and leaves both maps as they were when
\* its argument is malformed or names no subtest of the catalogue; when it
\* returns 0 it has changed the entry of the named subtest, in both maps,
\* and nothing else.  From collectTests on the keys of both maps are the
\* catalogue's subtest names: no call of setExpectedResult and no subtest of
\* testRemote adds one.
C37_ExpectationsKeepTheirKeys ==
  /\ [][nexpect' = nexpect + 1 =>
          LET a == opt_arg'.optarg
              name == safename(a.name)
          IN  IF Malformed(a) \/ name \notin CatalogueNames
              THEN /\ opt_ret' = 1
                   /\ mapTests' = mapTests
                   /\ mapTestsNoWarnings' = mapTestsNoWarnings
              ELSE /\ opt_ret' = 0
                   /\ mapTests' = [mapTests EXCEPT ![name] = Strtoul(a.val)]
                   /\ mapTestsNoWarnings' =
                        [mapTestsNoWarnings EXCEPT ![name] = opt_arg'.no_warnings]]_vars
  /\ [](pc \notin {"start", "exited"} =>
          /\ DOMAIN mapTests = CatalogueNames
          /\ DOMAIN mapTestsNoWarnings = CatalogueNames)

\* an expectation for a name that is no subtest was refused, and subtests
\* have run since
C37_Witness ==
  /\ nexpect = 1
  /\ opt_arg.optarg = OptArg("No Such Test", TRUE, "1")
  /\ opt_ret = 1
  /\ invoked # << >>
  /\ "No Such Test" \notin DOMAIN mapTests


\* C38: a Fail that the operator expected, without a violated no-warnings
\* rule, is reported as an expected failure and not as a failure; without an
\* expectation a NotApplicable outcome is not reported at all and every
\* other outcome is reported with one line that shows it.
C38_ExpectedFailAndNotApplicable ==
  invoked # << >> =>
    LET name == Entry(Last).name
        key == safename(name)
    IN  /\ (/\ mapTests[key] = FAIL
            /\ ret = FAIL
            /\ ~(has_warnings /\ mapTestsNoWarnings[key]))
             => report = Line(name, OK_EXPECTED_FAIL, "")
        /\ mapTests[key] = DONT_CARE =>
             report = IF ret = NOTAPPLICABLE THEN NoLine ELSE Line(name, ret, "")

\* User Control Pressed failed as the operator had expected
C38_Witness ==
  /\ invoked # << >>
  /\ Entry(Last).test_fn = "rc_passthrough_user_ctrl_pressed"
  /\ mapTests["user_control_pressed"] = FAIL
  /\ ret = FAIL
  /\ report = Line("User Control Pressed", OK_EXPECTED_FAIL, "")


\* testRemote has been called
Called == pc \in {"group", "subtest", "done", "aborted"}

\* the power state of the remote could not be brought to On, or the remote is
\* in standby and nobody is there to wake it up
CannotTest ==
  ~call.power_ok \/ (call.remote_in_standby /\ ~call.interactive)

\* Report Physical Address was handed to transmit_timeout
ReportSent == msg \in Replies

\* C39: testRemote calls no subtest, prints no group and sends nothing when
\* the remote cannot be brought to On or is in standby in a run that is not
\* interactive; in every other case it sends Report Physical Address and
\* goes on to the catalogue whether or not that transmit succeeded.
C39_StartsUnlessNotPowered ==
  Called =>
    IF CannotTest
    THEN /\ pc = "aborted"
         /\ ~ReportSent
         /\ invoked = << >> /\ skipped = << >> /\ groups_run = << >>
    ELSE /\ pc # "aborted"
         /\ ReportSent
         /\ pc = "done" => groups_run # << >>

\* subtests have run although Report Physical Address could not be sent
C39_Witness ==
  /\ Called
  /\ ~CannotTest
  /\ ReportSent
  /\ ~msg.tx_ok
  /\ invoked # << >>


\* the subtest is in one of its two waiting loops
Waiting == test_fn = "deck_ctl_deck_ctl" /\ step \in {"wait_fwd", "wait_rev"}

\* a Give Deck Status that was not answered with a Deck Status
PollFailed(m) == ~m.tx_ok \/ m.status # "ok"

\* C40: each loop of deck_ctl_deck_ctl that waits for a skip to finish asks
\* for the deck status at most long_timeout times, and only while the deck
\* still reports the skip; a poll that fails ends the subtest with Fail; when
\* the loop is left the subtest fails unless the deck reports Play; and the
\* subtest, once called, returns.
C40_SkipWaitsAreBounded ==
  /\ [](Waiting => idx <= long_timeout)
  /\ [][(Waiting /\ sent' # sent) =>
          /\ deck_status = SkipOf(step)
          /\ idx < long_timeout
          /\ IF PollFailed(replies'[Len(replies')])
             THEN step' = "returned" /\ fret' = FAIL
             ELSE step' = step /\ idx' = idx + 1]_vars
  /\ [][(Waiting /\ sent' = sent) =>
          IF deck_status = "CEC_OP_DECK_INFO_PLAY"
          THEN step' = AfterWait(step)
          ELSE step' = "returned" /\ fret' = FAIL]_vars
  /\ (pc = "running" /\ test_fn = "deck_ctl_deck_ctl") ~> (step = "returned")

\* the deck still reported Skip Forward after long_timeout polls, and the
\* subtest has failed
C40_Witness ==
  /\ test_fn = "deck_ctl_deck_ctl"
  /\ step = "returned"
  /\ fret = FAIL
  /\ idx = long_timeout
  /\ deck_status = "CEC_OP_DECK_INFO_SKIP_FWD"

====
